---- MODULE Spec2Model ----
(***************************************************************************)
(* A model of the sequential tool-calling loop of backend/ai_generator.py  *)
(* (AIGenerator.generate_response and its helpers) and of the tool layer   *)
(* of backend/search_tools.py (CourseSearchTool, CourseOutlineTool,        *)
(* ToolManager).                                                           *)
(*                                                                         *)
(* Texts are sequences of string tokens: an f-string is the concatenation  *)
(* of its pieces, so "starts with" and "contains" are statements about     *)
(* token sequences.  An Optional value is a sequence of length 0 (None) or *)
(* 1 (the value).                                                          *)
(***************************************************************************)
EXTENDS Integers, Sequences, FiniteSets, TLC

VARIABLES
    gen,           \* the frame of the generate_response call (its locals and its outcome)
    client_calls,  \* every client.messages.create(**api_params), in call order
    replies,       \* what the model answered to each of those calls, in call order
    dispatched,    \* every tool_manager.execute_tool(name, **input), in call order
    registry,      \* ToolManager.tools: the dict, as its (name, tool) items in dict order
    last_sources,  \* the attribute last_sources of every tool instance
    ret            \* the last operation on the tool layer: its arguments, what the
                   \* index answered, and what the operation returned or raised

gvars == <<gen, client_calls, replies, dispatched>>
tvars == <<registry, last_sources, ret>>
vars == <<gen, client_calls, replies, dispatched, registry, last_sources, ret>>

\* Bounds of the model.
MaxRounds == 2
MaxBlocks == 2
MaxPassages == 2
MaxLessons == 2
MaxRequests == 3

----------------------------------------------------------------------------
(* Optional values and Python truthiness *)

None == <<>>
Some(x) == <<x>>
IsNone(o) == Len(o) = 0
Value(o) == o[1]

\* bool(x) of an Optional[str] or Optional[List]: None, "" and [] are falsy.
Truthy(o) == Len(o) = 1 /\ Len(o[1]) > 0

StartsWith(t, p) == Len(t) >= Len(p) /\ SubSeq(t, 1, Len(p)) = p
Contains(t, p) == \E i \in 1..(Len(t) - Len(p) + 1) : SubSeq(t, i, i + Len(p) - 1) = p
IsPrefix(s, t) == Len(s) <= Len(t) /\ \A i \in 1..Len(s) : s[i] = t[i]

----------------------------------------------------------------------------
(* The inputs of one generate_response call *)

Query == <<"What is covered in lesson 1?">>
SYSTEM_PROMPT == "SYSTEM_PROMPT"
ToolSchemas == <<"search_course_content", "get_course_outline">>

\* max_rounds: the default 2, smaller budgets, and the budgets 0 and -1 for
\* which range(1, max_rounds + 1) is empty.
RoundBudgets == -1..MaxRounds
\* conversation_history: Optional[str]; a str is a token sequence, "" the
\* empty one.
Histories == {None, Some(<<>>), Some(<<"User: hi\nAssistant: hello">>)}
\* tools: Optional[List]: None, the empty list, the schemas of the registered tools.
ToolsArgs == {None, Some(<<>>), Some(ToolSchemas)}
\* tool_manager: None or an object with execute_tool.
ManagerArgs == {FALSE, TRUE}

----------------------------------------------------------------------------
(* The model's answers.  The orchestrator never inspects a text, a tool     *)
(* name, a tool input or an invocation id; it only moves them.  Block i of  *)
(* the answer to call n carries values of its own, so the origin of every   *)
(* value the orchestrator returns, dispatches or appends is visible.        *)

Tag(n, i) == ToString(n) \o "." \o ToString(i)
ModelText(n, i) == <<"model text " \o Tag(n, i)>>
ToolName(n, i) == "tool_" \o Tag(n, i)
ToolInput(n, i) == [query |-> "query " \o Tag(n, i)]
ToolUseId(n, i) == "toolu_" \o Tag(n, i)
ToolResult(n, i) == <<"result of tool_" \o Tag(n, i)>>
ToolError(n, i) == <<"failure in tool_" \o Tag(n, i)>>

BlockTypes == {"text", "tool_use"}
StopReasons == {"end_turn", "tool_use"}
\* The block types of a response content of at most MaxBlocks blocks.
Shapes == UNION {[1..k -> BlockTypes] : k \in 0..MaxBlocks}

Block(n, i, type) ==
    IF type = "text"
    THEN [type |-> "text", text |-> ModelText(n, i)]
    ELSE [type |-> "tool_use", name |-> ToolName(n, i),
          input |-> ToolInput(n, i), id |-> ToolUseId(n, i)]

Response(n, stop, shape) ==
    [stop_reason |-> stop,
     content |-> [i \in 1..Len(shape) |-> Block(n, i, shape[i])]]

ApiError(n) == "APIError of call " \o ToString(n)

\* What client.messages.create does on call n: return a response or raise an
\* error of the provider.
Replies(n) ==
    {[raised |-> FALSE, error |-> "", response |-> Response(n, s, sh)] :
        s \in StopReasons, sh \in Shapes}
    \cup {[raised |-> TRUE, error |-> ApiError(n),
           response |-> Response(n, "end_turn", <<>>)]}

\* What tool_manager.execute_tool does for the invocation block: return a
\* text or raise an exception whose str() is the message.
DispatchOutcomes(n, i) ==
    {[raised |-> FALSE, text |-> ToolResult(n, i)],
     [raised |-> TRUE, text |-> ToolError(n, i)]}

----------------------------------------------------------------------------
(* AIGenerator *)

\* What a call did: nothing yet, returned a text, or raised exc with str() text.
NoResult == [kind |-> "none", text |-> <<>>, exc |-> ""]
Returned(t) == [kind |-> "return", text |-> t, exc |-> ""]
Raised(e) == [kind |-> "raise", text |-> <<>>, exc |-> e]
RaisedWith(e, message) == [kind |-> "raise", text |-> message, exc |-> e]

\* The locals of generate_response (conversation_history, tools, tool_manager,
\* max_rounds, system_content, messages, round_num, response), the locals of
\* _execute_tools_and_update_messages (updated: its own messages; block: the
\* position of content_block in response.content; tool_results), and what
\* generate_response returned or raised.
IdleFrame ==
    [pc |-> "idle", conversation_history |-> None,
     tools |-> None, tool_manager |-> FALSE, max_rounds |-> 0,
     system_content |-> <<>>, messages |-> <<>>, round_num |-> 0,
     response |-> Response(0, "end_turn", <<>>), updated |-> <<>>, block |-> 0,
     tool_results |-> <<>>, result |-> NoResult]

\* A message of the conversation.  Every content is a sequence of records: a
\* str content is the sequence of the one record holding the str.
StrContent(t) == <<[type |-> "str", text |-> t]>>
Turn(role, content) == [role |-> role, content |-> content]

\* A system content that leaves the history out.
BuildSystemContentNoHistory(conversation_history) == <<SYSTEM_PROMPT>>

\* _build_system_content
BuildSystemContent(conversation_history) ==
    IF Truthy(conversation_history)
    THEN <<SYSTEM_PROMPT, "\n\nPrevious conversation:\n">> \o Value(conversation_history)
    ELSE <<SYSTEM_PROMPT>>

\* The api_params of _make_api_call: the keys "tools" and "tool_choice" are
\* present only for a truthy tools argument.
ApiParams(messages, system_content, tools) ==
    [messages |-> messages,
     system |-> system_content,
     tools |-> IF Truthy(tools) THEN tools ELSE None,
     tool_choice |-> IF Truthy(tools) THEN Some([type |-> "auto"]) ELSE None]

\* response.content[0].text: IndexError on an empty content, AttributeError on
\* a block that is no text block (a tool_use block has no attribute text).
FirstText(content) ==
    IF Len(content) = 0 THEN Raised("IndexError")
    ELSE IF content[1].type # "text" THEN Raised("AttributeError")
    ELSE Returned(content[1].text)

\* Line 88-93: the tool-use response of a call without a tool manager.
NoManagerResult(content) ==
    IF Len(content) > 0 THEN FirstText(content)
    ELSE Returned(<<"No response available">>)

\* Line 182: the exception _execute_tools_and_update_messages raises.
ToolFailure(name, message) == <<"Tool '", name, "' failed: ">> \o message

\* Line 102: the text generate_response returns for it.
Apology(message) == <<"I encountered an error while searching: ">> \o message

Finish(f, res) == [f EXCEPT !.pc = "done", !.result = res]

\* A loop of range(1, max_rounds): one round short.
LoopToShort(f, r) ==
    [f EXCEPT !.round_num = r,
              !.pc = IF r < f.max_rounds THEN "round" ELSE "final"]

\* A loop that runs its first round whatever the budget.
LoopToAtLeastOnce(f, r) ==
    [f EXCEPT !.round_num = r,
              !.pc = IF r <= f.max_rounds \/ r = 1 THEN "round" ELSE "final"]

\* The top of the loop of line 78 for the round number r.
LoopTo(f, r) ==
    [f EXCEPT !.round_num = r,
              !.pc = IF r <= f.max_rounds THEN "round" ELSE "final"]

\* A round that rebuilds the conversation from the query and its own turns.
EndOfToolsLatestOnly(f) ==
    LET fresh == <<f.updated[1], f.updated[Len(f.updated)]>>
        messages == IF Len(f.tool_results) > 0
                    THEN Append(fresh, Turn("user", f.tool_results))
                    ELSE fresh
    IN LoopTo([f EXCEPT !.messages = messages, !.updated = <<>>], f.round_num + 1)

\* Lines 184-188, then the assignment of line 97 and the next iteration.
EndOfTools(f) ==
    LET messages == IF Len(f.tool_results) > 0
                    THEN Append(f.updated, Turn("user", f.tool_results))
                    ELSE f.updated
    IN LoopTo([f EXCEPT !.messages = messages, !.updated = <<>>], f.round_num + 1)

\* The loop of line 166 after the block f.block: the next block, or the end.
NextBlock(f) ==
    IF f.block >= Len(f.response.content)
    THEN EndOfTools(f)
    ELSE [f EXCEPT !.block = f.block + 1]

\* Lines 160-165: a copy of messages with the assistant turn appended.
EnterTools(f, response) ==
    NextBlock([f EXCEPT !.pc = "tools",
                        !.response = response,
                        !.updated = Append(f.messages, Turn("assistant", response.content)),
                        !.tool_results = <<>>,
                        !.block = 0])

\* The loop without the test of line 83: every response goes on to the tools.
AfterRoundCallNoStopTest(f, reply) ==
    IF reply.raised THEN Finish(f, Raised(reply.error))
    ELSE IF ~f.tool_manager
         THEN Finish([f EXCEPT !.response = reply.response],
                     NoManagerResult(reply.response.content))
    ELSE EnterTools(f, reply.response)

\* Lines 83-102 up to the call of _execute_tools_and_update_messages.
AfterRoundCall(f, reply) ==
    IF reply.raised THEN Finish(f, Raised(reply.error))
    ELSE IF reply.response.stop_reason # "tool_use"
         THEN Finish([f EXCEPT !.response = reply.response],
                     FirstText(reply.response.content))
    ELSE IF ~f.tool_manager
         THEN Finish([f EXCEPT !.response = reply.response],
                     NoManagerResult(reply.response.content))
    ELSE EnterTools(f, reply.response)

\* The final call inside a try that turns the error into an answer.
AfterFinalCallCaught(f, reply) ==
    IF reply.raised THEN Finish(f, Returned(Apology(<<reply.error>>)))
    ELSE Finish([f EXCEPT !.response = reply.response],
                FirstText(reply.response.content))

\* A final call whose tool-use response is handled like a round's response.
AfterFinalCallAsRound(f, reply) ==
    IF reply.raised THEN Finish(f, Raised(reply.error))
    ELSE IF reply.response.stop_reason = "tool_use" /\ f.tool_manager
         THEN EnterTools(f, reply.response)
    ELSE Finish([f EXCEPT !.response = reply.response],
                FirstText(reply.response.content))

\* Lines 105-106.
AfterFinalCall(f, reply) ==
    IF reply.raised THEN Finish(f, Raised(reply.error))
    ELSE Finish([f EXCEPT !.response = reply.response],
                FirstText(reply.response.content))

\* A dispatch whose failure is folded into the results like a result.
AfterDispatchFolded(f, out) ==
    LET b == f.response.content[f.block] IN
    NextBlock([f EXCEPT !.tool_results =
        Append(f.tool_results,
               [type |-> "tool_result", tool_use_id |-> b.id, content |-> out.text])])

\* A dispatch whose result goes to the front of tool_results.
AfterDispatchPrepends(f, out) ==
    LET b == f.response.content[f.block] IN
    IF out.raised
    THEN Finish(f, Returned(Apology(ToolFailure(b.name, out.text))))
    ELSE NextBlock([f EXCEPT !.tool_results =
            <<[type |-> "tool_result", tool_use_id |-> b.id, content |-> out.text]>>
            \o f.tool_results])

\* A dispatch whose failure is dropped: the loop goes on to the next block.
AfterDispatchSkipsFailure(f, out) ==
    LET b == f.response.content[f.block] IN
    IF out.raised
    THEN NextBlock(f)
    ELSE NextBlock([f EXCEPT !.tool_results =
            Append(f.tool_results,
                   [type |-> "tool_result", tool_use_id |-> b.id, content |-> out.text])])

\* Lines 167-182 for a tool_use block and the outcome of its dispatch.
AfterDispatch(f, out) ==
    LET b == f.response.content[f.block] IN
    IF out.raised
    THEN Finish(f, Returned(Apology(ToolFailure(b.name, out.text))))
    ELSE NextBlock([f EXCEPT !.tool_results =
            Append(f.tool_results,
                   [type |-> "tool_result", tool_use_id |-> b.id, content |-> out.text])])

----------------------------------------------------------------------------
(* The search index (vector_store.VectorStore), an external collaborator:  *)
(* what it holds and what its calls answer.                                *)

CourseTitle == "Intro"
CourseLink == "https://example.com/intro"
LessonLink == "https://example.com/intro/lesson1"

\* get_lesson_link(course_title, lesson_number): lesson 1 of the course has a
\* link, no other lesson has one.
GetLessonLink(title, n) ==
    IF title = CourseTitle /\ n = 1 THEN Some(LessonLink) ELSE None

\* The metadata a chunk carries: a lesson of the course, or no lesson number.
PassageMetas ==
    {[course_title |-> Some(CourseTitle), lesson_number |-> Some(1)],
     [course_title |-> Some(CourseTitle), lesson_number |-> None]}

Passage(i, meta) == [doc |-> "passage " \o ToString(i), meta |-> meta]

\* The ranked passages of a search: documents zipped with their metadata.
PassageLists ==
    UNION {{[i \in 1..k |-> Passage(i, ms[i])] : ms \in [1..k -> PassageMetas]} :
            k \in 0..MaxPassages}

SearchError == <<"Search error: index unavailable">>
SearchFailure == <<"index connection lost">>

\* What store.search does: raise, return SearchResults with an error message
\* and no passages, or return SearchResults with ranked passages (maybe none).
SearchOutcomes ==
    {[raised |-> TRUE, error |-> None, passages |-> <<>>],
     [raised |-> FALSE, error |-> Some(SearchError), passages |-> <<>>]}
    \cup {[raised |-> FALSE, error |-> None, passages |-> ps] : ps \in PassageLists}

\* The keyword arguments of CourseSearchTool.execute.
SearchArgs ==
    {[query |-> "topic", course_name |-> c, lesson_number |-> l] :
        c \in {None, Some(<<"intro">>)}, l \in {None, Some(0), Some(1)}}

\* The search without filters.
PlainArgs == {a \in SearchArgs : IsNone(a.course_name) /\ IsNone(a.lesson_number)}

Lesson(n) == [lesson_number |-> n, lesson_title |-> "Lesson title " \o ToString(n)]

\* The lessons list of a course's metadata, in the order the index stores it.
LessonLists ==
    UNION {{ls \in [1..k -> {Lesson(n) : n \in 1..k}] :
                \A i, j \in 1..k : i # j => ls[i] # ls[j]} : k \in 0..MaxLessons}

CourseMetadata ==
    {[title |-> CourseTitle, instructor |-> "Ada", course_link |-> l, lessons |-> ls] :
        l \in {None, Some(CourseLink)}, ls \in LessonLists}

\* What the index answers to CourseOutlineTool.execute: _resolve_course_name
\* returns None or the title, get_all_courses_metadata returns the courses.
OutlineOutcomes ==
    {[resolved |-> None, courses |-> <<>>],
     [resolved |-> Some(CourseTitle), courses |-> <<>>]}
    \cup {[resolved |-> Some(CourseTitle), courses |-> <<m>>] : m \in CourseMetadata}

\* The argument course_title of CourseOutlineTool.execute.
OutlineArgs == {"intro", "nosuchcourse"}

----------------------------------------------------------------------------
(* CourseSearchTool *)

\* bool(x) of an Optional[int]: None and 0 are falsy.
TruthyInt(o) == Len(o) = 1 /\ o[1] # 0

\* Lines 82-87.
NoContentMessage(args) ==
    <<"No relevant content found">>
    \o (IF Truthy(args.course_name)
        THEN <<" in course '">> \o Value(args.course_name) \o <<"'">> ELSE <<>>)
    \o (IF TruthyInt(args.lesson_number)
        THEN <<" in lesson ", ToString(Value(args.lesson_number))>> ELSE <<>>)
    \o <<".">>

\* meta.get("course_title", "unknown")
TitleOf(meta) == IF IsNone(meta.course_title) THEN "unknown" ELSE Value(meta.course_title)

\* Lines 102-105 and 108-110: the text both the header and the citation carry.
SourceText(meta) ==
    <<TitleOf(meta)>>
    \o (IF IsNone(meta.lesson_number) THEN <<>>
        ELSE <<" - Lesson ", ToString(Value(meta.lesson_number))>>)

\* Line 114: the passages get_lesson_link is called for.
NeedsLink(meta) == TitleOf(meta) # "unknown" /\ ~IsNone(meta.lesson_number)

\* A citation that never carries a link.
CitationNoLink(meta) == [text |-> SourceText(meta), link |-> None]

\* Lines 113-118.
Citation(meta) ==
    [text |-> SourceText(meta),
     link |-> IF NeedsLink(meta)
              THEN GetLessonLink(TitleOf(meta), Value(meta.lesson_number))
              ELSE None]

\* Line 121: f"{header}\n{doc}".
Formatted(p) == <<"[">> \o SourceText(p.meta) \o <<"]", "\n", p.doc>>

RECURSIVE JoinFormatted(_)
\* Line 126: "\n\n".join(formatted).
JoinFormatted(ps) ==
    IF Len(ps) = 0 THEN <<>>
    ELSE IF Len(ps) = 1 THEN Formatted(ps[1])
    ELSE Formatted(ps[1]) \o <<"\n\n">> \o JoinFormatted(Tail(ps))

\* The sources list _format_results builds, in rank order.
SourcesOf(ps) == [i \in 1..Len(ps) |-> Citation(ps[i].meta)]

\* The get_lesson_link calls _format_results makes, in rank order.
LookupsOf(ps) ==
    LET F[i \in 0..Len(ps)] ==
            IF i = 0 THEN <<>>
            ELSE IF NeedsLink(ps[i].meta)
                 THEN Append(F[i - 1], <<TitleOf(ps[i].meta), Value(ps[i].meta.lesson_number)>>)
                 ELSE F[i - 1]
    IN F[Len(ps)]

\* What an execution did: its result, the value of self.last_sources after it,
\* and the get_lesson_link calls it made on the index.
Effect(result, sources, lookups) ==
    [result |-> result, last_sources |-> sources, lookups |-> lookups]

\* _format_results (lines 92-126).
FormatResults(ps) == Effect(Returned(JoinFormatted(ps)), SourcesOf(ps), LookupsOf(ps))

\* A search call that passes the lesson filter only when it is truthy.
StoreSearchCallsTruthy(args) ==
    <<[query |-> args.query, course_name |-> args.course_name,
       lesson_number |-> IF TruthyInt(args.lesson_number) THEN args.lesson_number ELSE None]>>

\* Lines 72-74: the calls of store.search one execution makes, with their
\* keyword arguments.
StoreSearchCalls(args) ==
    <<[query |-> args.query, course_name |-> args.course_name,
       lesson_number |-> args.lesson_number]>>

\* An execute that raises the error of the search outcome.
SearchExecuteRaisesError(slot, args, out) ==
    IF out.raised THEN Effect(RaisedWith("Exception", SearchFailure), slot, <<>>)
    ELSE IF Truthy(out.error) THEN Effect(RaisedWith("Exception", Value(out.error)), slot, <<>>)
    ELSE IF Len(out.passages) = 0 THEN Effect(Returned(NoContentMessage(args)), slot, <<>>)
    ELSE FormatResults(out.passages)

\* CourseSearchTool.execute (lines 53-90) on a tool whose last_sources is slot.
SearchExecute(slot, args, out) ==
    IF out.raised THEN Effect(RaisedWith("Exception", SearchFailure), slot, <<>>)
    ELSE IF Truthy(out.error) THEN Effect(Returned(Value(out.error)), slot, <<>>)
    ELSE IF Len(out.passages) = 0 THEN Effect(Returned(NoContentMessage(args)), slot, <<>>)
    ELSE FormatResults(out.passages)

----------------------------------------------------------------------------
(* CourseOutlineTool *)

\* Lines 173-177: the first course whose title is the resolved one.
FindCourse(courses, title) ==
    LET hits == {i \in 1..Len(courses) : courses[i].title = title} IN
    IF hits = {} THEN None
    ELSE Some(courses[CHOOSE i \in hits : \A j \in hits : i <= j])

\* One line per lesson, by ascending lesson number.
LessonLinesAscending(lessons) ==
    LET ranked == [i \in 1..Len(lessons) |->
                    CHOOSE j \in 1..Len(lessons) :
                        Cardinality({h \in 1..Len(lessons) :
                            lessons[h].lesson_number <= lessons[j].lesson_number}) = i]
    IN [i \in 1..Len(lessons) |->
            "Lesson " \o ToString(lessons[ranked[i]].lesson_number) \o ": "
            \o lessons[ranked[i]].lesson_title]

\* Lines 207-210: one line per lesson, in the order of the list.
LessonLines(lessons) ==
    [i \in 1..Len(lessons) |->
        "Lesson " \o ToString(lessons[i].lesson_number) \o ": " \o lessons[i].lesson_title]

\* outline_parts of _format_course_outline (lines 193-212).
OutlineParts(m) ==
    <<"**Course Title:** " \o m.title, "**Course Instructor:** " \o m.instructor>>
    \o (IF Truthy(m.course_link)
        THEN <<"**Course Link:** " \o Value(m.course_link)>> ELSE <<>>)
    \o (IF Len(m.lessons) > 0
        THEN <<"**Total Lessons:** " \o ToString(Len(m.lessons)), "\n**Course Outline:**">>
             \o LessonLines(m.lessons)
        ELSE <<"**No lessons found for this course**">>)

\* An outline whose citation never carries the course link.
FormatCourseOutlineNoLink(m) ==
    Effect(Returned(OutlineParts(m)), <<[text |-> <<m.title>>, link |-> None]>>, <<>>)

\* _format_course_outline (lines 185-218); the result is the parts, one a line.
FormatCourseOutline(m) ==
    Effect(Returned(OutlineParts(m)),
           <<[text |-> <<m.title>>, link |-> m.course_link]>>, <<>>)

\* Lines 165-170: the calls on the index one execution makes.
OutlineCalls(course_title, out) ==
    <<<<"_resolve_course_name", course_title>>>>
    \o (IF Truthy(out.resolved) THEN <<<<"get_all_courses_metadata">>>> ELSE <<>>)

\* An execute that raises for a title the index cannot resolve.
OutlineExecuteRaisesUnresolved(slot, course_title, out) ==
    IF ~Truthy(out.resolved)
    THEN Effect(RaisedWith("ValueError", <<"No course found matching '", course_title, "'">>),
                slot, <<>>)
    ELSE LET m == FindCourse(out.courses, Value(out.resolved)) IN
         IF IsNone(m)
         THEN Effect(Returned(<<"Course metadata not found for '", Value(out.resolved), "'">>),
                     slot, <<>>)
         ELSE FormatCourseOutline(Value(m))

\* CourseOutlineTool.execute (lines 153-183) on a tool whose last_sources is slot.
OutlineExecute(slot, course_title, out) ==
    IF ~Truthy(out.resolved)
    THEN Effect(Returned(<<"No course found matching '", course_title, "'">>), slot, <<>>)
    ELSE LET m == FindCourse(out.courses, Value(out.resolved)) IN
         IF IsNone(m)
         THEN Effect(Returned(<<"Course metadata not found for '", Value(out.resolved), "'">>),
                     slot, <<>>)
         ELSE FormatCourseOutline(Value(m))

----------------------------------------------------------------------------
(* ToolManager *)

SearchName == "search_course_content"
OutlineName == "get_course_outline"

\* The tool instances: two CourseSearchTool objects, a CourseOutlineTool, and
\* two Tool objects whose definition has no key "name" or the name "".
SearchTools == {"search_a", "search_b"}
OutlineTools == {"outline"}
NamelessTools == {"no_name", "empty_name"}
Tools == SearchTools \cup OutlineTools \cup NamelessTools

\* tool.get_tool_definition().get("name")
DefinitionName(t) ==
    IF t \in SearchTools THEN Some(SearchName)
    ELSE IF t \in OutlineTools THEN Some(OutlineName)
    ELSE IF t = "no_name" THEN None
    ELSE Some("")

\* The names execute_tool is called with.
RequestedNames == {SearchName, OutlineName, "no_such_tool"}

Names(reg) == {reg[i].name : i \in 1..Len(reg)}
IndexOf(reg, name) == CHOOSE i \in 1..Len(reg) : reg[i].name = name
\* self.tools[name]
Lookup(reg, name) == reg[IndexOf(reg, name)].tool

\* self.tools.setdefault(name, tool): an existing key keeps its value.
DictSetDefault(reg, name, t) ==
    IF name \in Names(reg) THEN reg
    ELSE Append(reg, [name |-> name, tool |-> t])

\* A list of (name, tool) pairs instead of a dict: every registration adds.
DictSetDuplicate(reg, name, t) == Append(reg, [name |-> name, tool |-> t])

\* del self.tools[name] before the assignment: the key always goes last.
DictSetMoveToEnd(reg, name, t) ==
    Append(SelectSeq(reg, LAMBDA e : e.name # name), [name |-> name, tool |-> t])

\* self.tools[name] = tool: a new key goes last, an existing key keeps its
\* place in the dict order and gets the new value.
DictSet(reg, name, t) ==
    IF name \in Names(reg)
    THEN [reg EXCEPT ![IndexOf(reg, name)] = [name |-> name, tool |-> t]]
    ELSE Append(reg, [name |-> name, tool |-> t])

\* A register_tool that tests "tool_name is None": the name "" is accepted.
RegisterToolMissingOnly(reg, t) ==
    IF IsNone(DefinitionName(t))
    THEN [registry |-> reg,
          result |-> RaisedWith("ValueError", <<"Tool must have a 'name' in its definition">>)]
    ELSE [registry |-> DictSet(reg, Value(DefinitionName(t)), t),
          result |-> Returned(<<>>)]

\* register_tool (lines 227-233): the dict after the call, and its outcome.
RegisterTool(reg, t) ==
    IF ~Truthy(DefinitionName(t))
    THEN [registry |-> reg,
          result |-> RaisedWith("ValueError", <<"Tool must have a 'name' in its definition">>)]
    ELSE [registry |-> DictSet(reg, Value(DefinitionName(t)), t),
          result |-> Returned(<<>>)]

\* get_tool_definitions (line 237): the definitions in dict order.
GetToolDefinitions(reg) == [i \in 1..Len(reg) |-> DefinitionName(reg[i].tool)]

\* A message that does not name the tool.
NotFoundUnnamed(name) == <<"Tool not found">>

\* Line 242.
NotFound(name) == <<"Tool '", name, "' not found">>

\* A get_last_sources that concatenates the batches of all registered tools.
GetLastSourcesMerged(reg, slots) ==
    LET F[i \in 0..Len(reg)] ==
            IF i = 0 THEN <<>> ELSE F[i - 1] \o slots[reg[i].tool]
    IN F[Len(reg)]

\* get_last_sources (lines 246-252).
GetLastSources(reg, slots) ==
    LET hits == {i \in 1..Len(reg) : Len(slots[reg[i].tool]) > 0} IN
    IF hits = {} THEN <<>>
    ELSE slots[reg[CHOOSE i \in hits : \A j \in hits : i <= j].tool]

\* A reset_sources that stops after the first tool of the dict.
ResetSourcesFirstOnly(reg, slots) ==
    [t \in DOMAIN slots |->
        IF Len(reg) > 0 /\ reg[1].tool = t THEN <<>> ELSE slots[t]]

\* reset_sources (lines 254-258).
ResetSources(reg, slots) ==
    [t \in DOMAIN slots |->
        IF \E i \in 1..Len(reg) : reg[i].tool = t THEN <<>> ELSE slots[t]]

----------------------------------------------------------------------------
(* The operations on the tool layer *)

NoEffect == Effect(NoResult, <<>>, <<>>)
NoOutcome == [raised |-> FALSE, error |-> None, passages |-> <<>>]
NoOutline == [resolved |-> None, courses |-> <<>>]
NoArgs == [query |-> "", course_name |-> None, lesson_number |-> None]

\* The record of an operation: op and name say which, tool is the instance
\* it reached, args or title its arguments, outcome or outline what the index
\* answered, result what it returned or raised.
Op(op, tool, name, args, title, outcome, outline, eff, sources) ==
    [op |-> op, tool |-> tool, name |-> name, args |-> args, title |-> title,
     outcome |-> outcome, outline |-> outline,
     result |-> eff.result, lookups |-> eff.lookups, sources |-> sources]

InitTools ==
    /\ registry = <<>>
    /\ last_sources = [t \in Tools |-> <<>>]
    /\ ret = Op("init", "", "", NoArgs, "", NoOutcome, NoOutline, NoEffect, <<>>)

InitGen ==
    /\ gen = IdleFrame
    /\ client_calls = <<>>
    /\ replies = <<>>
    /\ dispatched = <<>>

Init == InitGen /\ InitTools

\* tool_manager.register_tool(t)
Register ==
    /\ \E t \in Tools :
        LET r == RegisterTool(registry, t) IN
        /\ registry' = r.registry
        /\ ret' = Op("register_tool", t, "", NoArgs, "", NoOutcome, NoOutline,
                     Effect(r.result, <<>>, <<>>), <<>>)
    /\ UNCHANGED last_sources
    /\ UNCHANGED gvars

\* tool_manager.execute_tool(name, ...) with a name that is no key of the dict
ExecuteUnknown ==
    /\ \E name \in RequestedNames :
        /\ name \notin Names(registry)
        /\ ret' = Op("execute_tool", "", name, NoArgs, "", NoOutcome, NoOutline,
                     Effect(Returned(NotFound(name)), <<>>, <<>>), <<>>)
    /\ UNCHANGED <<registry, last_sources>>
    /\ UNCHANGED gvars

\* tool_manager.execute_tool(name, query=...) reaching a CourseSearchTool
ExecuteSearch ==
    /\ \E name \in RequestedNames, args \in PlainArgs, out \in SearchOutcomes :
        /\ name \in Names(registry)
        /\ Lookup(registry, name) \in SearchTools
        /\ LET t == Lookup(registry, name)
               e == SearchExecute(last_sources[t], args, out)
           IN /\ last_sources' = [last_sources EXCEPT ![t] = e.last_sources]
              /\ ret' = Op("execute_tool", t, name, args, "", out, NoOutline, e, <<>>)
    /\ UNCHANGED registry
    /\ UNCHANGED gvars

\* tool_manager.execute_tool(name, course_title=...) reaching a CourseOutlineTool
ExecuteOutline ==
    /\ \E name \in RequestedNames, title \in OutlineArgs, out \in OutlineOutcomes :
        /\ name \in Names(registry)
        /\ Lookup(registry, name) \in OutlineTools
        /\ LET t == Lookup(registry, name)
               e == OutlineExecute(last_sources[t], title, out)
           IN /\ last_sources' = [last_sources EXCEPT ![t] = e.last_sources]
              /\ ret' = Op("execute_tool", t, name, NoArgs, title, NoOutcome, out, e, <<>>)
                         @@ [calls |-> OutlineCalls(title, out)]
    /\ UNCHANGED registry
    /\ UNCHANGED gvars

\* tool_manager.get_last_sources()
ReadSources ==
    /\ ret' = Op("get_last_sources", "", "", NoArgs, "", NoOutcome, NoOutline, NoEffect,
                 GetLastSources(registry, last_sources))
    /\ UNCHANGED <<registry, last_sources>>
    /\ UNCHANGED gvars

\* tool_manager.reset_sources()
Reset ==
    /\ last_sources' = ResetSources(registry, last_sources)
    /\ ret' = Op("reset_sources", "", "", NoArgs, "", NoOutcome, NoOutline, NoEffect, <<>>)
    /\ UNCHANGED registry
    /\ UNCHANGED gvars

ToolNext ==
    \/ Register
    \/ ExecuteUnknown
    \/ ExecuteSearch
    \/ ExecuteOutline
    \/ ReadSources
    \/ Reset

\* The tool layer under any sequence of its operations.
ToolSpec == Init /\ [][ToolNext]_vars

----------------------------------------------------------------------------
(* CourseSearchTool.execute as a function of its arguments and of the      *)
(* answer of the index: executions of one tool instance, called directly   *)
(* with every combination of filters.                                      *)

DirectTool == "search_a"

\* tool.execute(query, course_name, lesson_number)
DirectSearch ==
    /\ \E args \in SearchArgs, out \in SearchOutcomes :
        LET e == SearchExecute(last_sources[DirectTool], args, out) IN
        /\ last_sources' = [last_sources EXCEPT ![DirectTool] = e.last_sources]
        /\ ret' = Op("execute", DirectTool, "", args, "", out, NoOutline, e, <<>>)
                   @@ [searches |-> StoreSearchCalls(args)]
    /\ UNCHANGED registry
    /\ UNCHANGED gvars

SearchNext == DirectSearch

SearchSpec == Init /\ [][SearchNext]_vars

----------------------------------------------------------------------------
(* One generate_response call against any model and any dispatcher *)

\* generate_response(query, conversation_history, tools, tool_manager, max_rounds)
\* up to the first iteration of the loop.
GenerateResponse ==
    /\ gen.pc = "idle"
    /\ \E h \in Histories, t \in ToolsArgs, m \in ManagerArgs, b \in RoundBudgets :
        gen' = LoopTo([gen EXCEPT !.tools = t,
                                  !.tool_manager = m,
                                  !.max_rounds = b,
                                  !.conversation_history = h,
                                  !.system_content = BuildSystemContent(h),
                                  !.messages = <<Turn("user", StrContent(Query))>>],
                      1)
    /\ UNCHANGED <<client_calls, replies, dispatched>>
    /\ UNCHANGED tvars

\* One iteration of the loop from its model call to the first dispatch (or to
\* the return).
RoundCall ==
    /\ gen.pc = "round"
    /\ \E reply \in Replies(Len(client_calls) + 1) :
        /\ client_calls' = Append(client_calls,
                                 ApiParams(gen.messages, gen.system_content, gen.tools))
        /\ replies' = Append(replies, reply)
        /\ gen' = AfterRoundCall(gen, reply)
    /\ UNCHANGED dispatched
    /\ UNCHANGED tvars

\* A text block of the response: line 167 is false, nothing is dispatched.
SkipTextBlock ==
    /\ gen.pc = "tools"
    /\ gen.response.content[gen.block].type # "tool_use"
    /\ gen' = NextBlock(gen)
    /\ UNCHANGED <<client_calls, replies, dispatched>>
    /\ UNCHANGED tvars

\* A tool_use block of the response: its dispatch and what follows.
DispatchBlock ==
    /\ gen.pc = "tools"
    /\ gen.response.content[gen.block].type = "tool_use"
    /\ LET b == gen.response.content[gen.block] IN
       \E out \in DispatchOutcomes(Len(client_calls), gen.block) :
        /\ dispatched' = Append(dispatched,
                                [name |-> b.name, input |-> b.input,
                                 round |-> gen.round_num, block |-> gen.block,
                                 raised |-> out.raised, text |-> out.text])
        /\ gen' = AfterDispatch(gen, out)
    /\ UNCHANGED <<client_calls, replies>>
    /\ UNCHANGED tvars

\* The call of line 105, without tools, and the return of line 106.
FinalCall ==
    /\ gen.pc = "final"
    /\ \E reply \in Replies(Len(client_calls) + 1) :
        /\ client_calls' = Append(client_calls,
                                 ApiParams(gen.messages, gen.system_content, None))
        /\ replies' = Append(replies, reply)
        /\ gen' = AfterFinalCall(gen, reply)
    /\ UNCHANGED dispatched
    /\ UNCHANGED tvars

Next ==
    \/ GenerateResponse
    \/ RoundCall
    \/ SkipTextBlock
    \/ DispatchBlock
    \/ FinalCall

Spec == Init /\ [][Next]_vars

\* generate_response runs in one thread, and every client.messages.create and
\* every execute_tool it waits for returns or raises: a step that is possible
\* is taken.
FairSpec == Spec /\ WF_vars(Next)

----------------------------------------------------------------------------
(* One generate_response call against the ToolManager of the application:  *)
(* the tools argument is get_tool_definitions() and every dispatch is      *)
(* ToolManager.execute_tool on the registered tools.                       *)

\* The default of the parameter max_rounds.
DefaultMaxRounds == 2

\* The keyword arguments the model sends to each tool.
SysSearchInput == [query |-> "topic", course_name |-> Some(<<"intro">>), lesson_number |-> Some(1)]
SysOutlineInput == [course_title |-> "intro"]
SysInput(name) == IF name = OutlineName THEN SysOutlineInput ELSE SysSearchInput

SysBlock(n, i, name) ==
    [type |-> "tool_use", name |-> name, input |-> SysInput(name), id |-> ToolUseId(n, i)]

\* The contents of a tool-use response: 1..MaxBlocks invocations of the two
\* registered names or of a name no tool has.
SysContents(n) ==
    UNION {{[i \in 1..k |-> SysBlock(n, i, names[i])] : names \in [1..k -> RequestedNames]} :
            k \in 1..MaxBlocks}

\* What the model does on call n: request tools, answer in text, or fail.
SysReplies(n) ==
    {[raised |-> FALSE, error |-> "",
      response |-> [stop_reason |-> "tool_use", content |-> c]] : c \in SysContents(n)}
    \cup {[raised |-> FALSE, error |-> "", response |-> Response(n, "end_turn", <<"text">>)],
          [raised |-> TRUE, error |-> ApiError(n), response |-> Response(n, "end_turn", <<>>)]}

\* What the model does on a call without tool schemas.
SysFinalReplies(n) ==
    {r \in SysReplies(n) : r.raised \/ r.response.stop_reason # "tool_use"}

\* What the index answers to one tool execution: for a search a failure, an
\* error message, no passage, or the passage of lesson 1; for an outline no
\* resolved title, or the title and the metadata of the course.
SysSearchOutcomes ==
    {o \in SearchOutcomes :
        \A i \in 1..Len(o.passages) : i = 1 /\ ~IsNone(o.passages[i].meta.lesson_number)}
SysOutlineOutcomes ==
    {o \in OutlineOutcomes :
        /\ Truthy(o.resolved) => Len(o.courses) > 0
        /\ \A i \in 1..Len(o.courses) :
            Len(o.courses[i].lessons) = 0 /\ ~IsNone(o.courses[i].course_link)}
SysAnswers(reg, name) ==
    IF name \notin Names(reg) THEN {[out |-> NoOutcome, outline |-> NoOutline]}
    ELSE IF Lookup(reg, name) \in SearchTools
         THEN {[out |-> o, outline |-> NoOutline] : o \in SysSearchOutcomes}
    ELSE {[out |-> NoOutcome, outline |-> o] : o \in SysOutlineOutcomes}

\* An execute_tool that lets the lookup of an unknown name fail.
ManagerExecuteStrict(reg, slots, name, input, ans) ==
    IF name \notin Names(reg)
    THEN [tool |-> "", slots |-> slots,
          eff |-> Effect(RaisedWith("KeyError", <<name>>), <<>>, <<>>)]
    ELSE LET t == Lookup(reg, name)
             e == IF t \in SearchTools
                  THEN SearchExecute(slots[t], input, ans.out)
                  ELSE OutlineExecute(slots[t], input.course_title, ans.outline)
         IN [tool |-> t, slots |-> [slots EXCEPT ![t] = e.last_sources], eff |-> e]

\* ToolManager.execute_tool(name, **input) (lines 239-244) on the registry reg
\* and the slots of the tools, for the answer ans of the index: the tool it
\* reached, the slots after it, and what it returned or raised.
ManagerExecute(reg, slots, name, input, ans) ==
    IF name \notin Names(reg)
    THEN [tool |-> "", slots |-> slots,
          eff |-> Effect(Returned(NotFound(name)), <<>>, <<>>)]
    ELSE LET t == Lookup(reg, name)
             e == IF t \in SearchTools
                  THEN SearchExecute(slots[t], input, ans.out)
                  ELSE OutlineExecute(slots[t], input.course_title, ans.outline)
         IN [tool |-> t, slots |-> [slots EXCEPT ![t] = e.last_sources], eff |-> e]

\* The application's ToolManager: a CourseSearchTool and a CourseOutlineTool
\* registered, no execution yet.
SysInit ==
    /\ InitGen
    /\ registry = RegisterTool(RegisterTool(<<>>, "search_a").registry, "outline").registry
    /\ last_sources = [t \in Tools |-> <<>>]
    /\ ret = Op("init", "", "", NoArgs, "", NoOutcome, NoOutline, NoEffect, <<>>)

\* generate_response(query, history, tools=get_tool_definitions(),
\* tool_manager=tool_manager) with the default max_rounds.
SysGenerate ==
    /\ gen.pc = "idle"
    /\ \E h \in Histories :
        gen' = LoopTo([gen EXCEPT !.tools = Some(GetToolDefinitions(registry)),
                                  !.tool_manager = TRUE,
                                  !.max_rounds = DefaultMaxRounds,
                                  !.conversation_history = h,
                                  !.system_content = BuildSystemContent(h),
                                  !.messages = <<Turn("user", StrContent(Query))>>],
                      1)
    /\ UNCHANGED <<client_calls, replies, dispatched>>
    /\ UNCHANGED tvars

SysRoundCall ==
    /\ gen.pc = "round"
    /\ \E reply \in SysReplies(Len(client_calls) + 1) :
        /\ client_calls' = Append(client_calls,
                                 ApiParams(gen.messages, gen.system_content, gen.tools))
        /\ replies' = Append(replies, reply)
        /\ gen' = AfterRoundCall(gen, reply)
    /\ UNCHANGED dispatched
    /\ UNCHANGED tvars

\* A dispatch whose failure makes the orchestrator reset the citations.
SysDispatchResetsOnFailure ==
    /\ gen.pc = "tools"
    /\ gen.response.content[gen.block].type = "tool_use"
    /\ LET b == gen.response.content[gen.block] IN
       \E ans \in SysAnswers(registry, b.name) :
        LET m == ManagerExecute(registry, last_sources, b.name, b.input, ans)
            out == [raised |-> m.eff.result.kind = "raise", text |-> m.eff.result.text]
        IN /\ dispatched' = Append(dispatched,
                                   [name |-> b.name, input |-> b.input,
                                    round |-> gen.round_num, block |-> gen.block,
                                    raised |-> out.raised, text |-> out.text,
                                    answer |-> ans, tool |-> m.tool])
           /\ last_sources' = IF out.raised THEN ResetSources(registry, m.slots) ELSE m.slots
           /\ ret' = Op("execute_tool", m.tool, b.name,
                        IF b.name = OutlineName THEN NoArgs ELSE b.input,
                        IF b.name = OutlineName THEN b.input.course_title ELSE "",
                        ans.out, ans.outline, m.eff, <<>>)
           /\ gen' = AfterDispatch(gen, out)
    /\ UNCHANGED <<client_calls, replies, registry>>

\* A tool_use block: tool_manager.execute_tool(name, **input) on the
\* ToolManager, then lines 173-182 for what it returned or raised.
SysDispatch ==
    /\ gen.pc = "tools"
    /\ gen.response.content[gen.block].type = "tool_use"
    /\ LET b == gen.response.content[gen.block] IN
       \E ans \in SysAnswers(registry, b.name) :
        LET m == ManagerExecute(registry, last_sources, b.name, b.input, ans)
            out == [raised |-> m.eff.result.kind = "raise", text |-> m.eff.result.text]
        IN /\ dispatched' = Append(dispatched,
                                   [name |-> b.name, input |-> b.input,
                                    round |-> gen.round_num, block |-> gen.block,
                                    raised |-> out.raised, text |-> out.text,
                                    answer |-> ans, tool |-> m.tool])
           /\ last_sources' = m.slots
           /\ ret' = Op("execute_tool", m.tool, b.name,
                        IF b.name = OutlineName THEN NoArgs ELSE b.input,
                        IF b.name = OutlineName THEN b.input.course_title ELSE "",
                        ans.out, ans.outline, m.eff, <<>>)
           /\ gen' = AfterDispatch(gen, out)
    /\ UNCHANGED <<client_calls, replies, registry>>

SysFinalCall ==
    /\ gen.pc = "final"
    /\ \E reply \in SysFinalReplies(Len(client_calls) + 1) :
        /\ client_calls' = Append(client_calls,
                                 ApiParams(gen.messages, gen.system_content, None))
        /\ replies' = Append(replies, reply)
        /\ gen' = AfterFinalCall(gen, reply)
    /\ UNCHANGED dispatched
    /\ UNCHANGED tvars

SysNext ==
    \/ SysGenerate
    \/ SysRoundCall
    \/ SysDispatch
    \/ SysFinalCall

SysSpec == SysInit /\ [][SysNext]_vars

----------------------------------------------------------------------------
(* Two generate_response calls running at the same time on one AIGenerator. *)
(* Each call has its own frame (its locals); the calls share the generator  *)
(* (SYSTEM_PROMPT and base_params, which no call writes) and the client.    *)
(* A call gives way to the other one while it waits for the model or for a  *)
(* tool.  Here gen maps a thread to its frame, and the entries of           *)
(* client_calls and dispatched name the thread that made them.              *)

Threads == {1, 2}
ConcQuery(q) == <<"query of thread " \o ToString(q)>>
ConcBudget == MaxRounds - 1

\* What the model answers: no block, a text, an invocation, a text and an
\* invocation, under either stop reason, or an error of the provider.
ConcShapes == {<<>>, <<"text">>, <<"tool_use">>, <<"text", "tool_use">>}
ConcReplies(n) ==
    {[raised |-> FALSE, error |-> "", response |-> Response(n, s, sh)] :
        s \in StopReasons, sh \in ConcShapes}
    \cup {[raised |-> TRUE, error |-> ApiError(n),
           response |-> Response(n, "end_turn", <<>>)]}

\* A list "messages" kept on the generator and seen by every call.
SharedMessages(g, q) ==
    IF g[1].pc # "idle" THEN g[1].messages ELSE g[q].messages

\* The name "messages" in the call of thread q: the local of lines 75 and 97.
OwnMessages(g, q) == g[q].messages

\* The number of the model call whose response thread q is working on.
LastCallOf(q) ==
    CHOOSE n \in 1..Len(client_calls) :
        /\ client_calls[n].thread = q
        /\ \A m \in (n + 1)..Len(client_calls) : client_calls[m].thread # q

ConcInit ==
    /\ gen = [q \in Threads |-> IdleFrame]
    /\ client_calls = <<>>
    /\ replies = <<>>
    /\ dispatched = <<>>
    /\ InitTools

ConcGenerate(q) ==
    /\ gen[q].pc = "idle"
    /\ gen' = [gen EXCEPT ![q] =
                LoopTo([gen[q] EXCEPT !.tools = Some(ToolSchemas),
                                      !.tool_manager = TRUE,
                                      !.max_rounds = ConcBudget,
                                      !.system_content = BuildSystemContent(None),
                                      !.messages = <<Turn("user", StrContent(ConcQuery(q)))>>],
                       1)]
    /\ UNCHANGED <<client_calls, replies, dispatched>>
    /\ UNCHANGED tvars

ConcRoundCall(q) ==
    /\ gen[q].pc = "round"
    /\ \E reply \in ConcReplies(Len(client_calls) + 1) :
        /\ client_calls' = Append(client_calls,
                                 ApiParams(OwnMessages(gen, q), gen[q].system_content,
                                           gen[q].tools) @@ [thread |-> q])
        /\ replies' = Append(replies, reply)
        /\ gen' = [gen EXCEPT ![q] = AfterRoundCall(gen[q], reply)]
    /\ UNCHANGED dispatched
    /\ UNCHANGED tvars

ConcSkipTextBlock(q) ==
    /\ gen[q].pc = "tools"
    /\ gen[q].response.content[gen[q].block].type # "tool_use"
    /\ gen' = [gen EXCEPT ![q] = NextBlock(gen[q])]
    /\ UNCHANGED <<client_calls, replies, dispatched>>
    /\ UNCHANGED tvars

ConcDispatchBlock(q) ==
    /\ gen[q].pc = "tools"
    /\ gen[q].response.content[gen[q].block].type = "tool_use"
    /\ LET b == gen[q].response.content[gen[q].block] IN
       \E out \in DispatchOutcomes(LastCallOf(q), gen[q].block) :
        /\ dispatched' = Append(dispatched,
                                [name |-> b.name, input |-> b.input,
                                 round |-> gen[q].round_num, block |-> gen[q].block,
                                 raised |-> out.raised, text |-> out.text,
                                 thread |-> q])
        /\ gen' = [gen EXCEPT ![q] = AfterDispatch(gen[q], out)]
    /\ UNCHANGED <<client_calls, replies>>
    /\ UNCHANGED tvars

ConcFinalCall(q) ==
    /\ gen[q].pc = "final"
    /\ \E reply \in ConcReplies(Len(client_calls) + 1) :
        /\ client_calls' = Append(client_calls,
                                 ApiParams(OwnMessages(gen, q), gen[q].system_content, None)
                                 @@ [thread |-> q])
        /\ replies' = Append(replies, reply)
        /\ gen' = [gen EXCEPT ![q] = AfterFinalCall(gen[q], reply)]
    /\ UNCHANGED dispatched
    /\ UNCHANGED tvars

ConcNext ==
    \E q \in Threads :
        \/ ConcGenerate(q)
        \/ ConcRoundCall(q)
        \/ ConcSkipTextBlock(q)
        \/ ConcDispatchBlock(q)
        \/ ConcFinalCall(q)

ConcSpec == ConcInit /\ [][ConcNext]_vars

----------------------------------------------------------------------------
(* Two top-level queries running at the same time against the application's *)
(* ToolManager: every interleaving of their calls of reset_sources,         *)
(* execute_tool and get_last_sources.  Here gen maps a query to the number  *)
(* of its executions and to slots: the citation slots as the calls of this  *)
(* query alone would have left them.                                        *)

Queries == {1, 2}
IdleQuery == [executed |-> 0, slots |-> [t \in Tools |-> <<>>]]

QueryInit ==
    /\ gen = [q \in Queries |-> IdleQuery]
    /\ client_calls = <<>>
    /\ replies = <<>>
    /\ dispatched = <<>>
    /\ registry = RegisterTool(RegisterTool(<<>>, "search_a").registry, "outline").registry
    /\ last_sources = [t \in Tools |-> <<>>]
    /\ ret = Op("init", "", "", NoArgs, "", NoOutcome, NoOutline, NoEffect, <<>>)

\* tool_manager.reset_sources() by query q
QueryReset(q) ==
    /\ last_sources' = ResetSources(registry, last_sources)
    /\ gen' = [gen EXCEPT ![q].slots = ResetSources(registry, gen[q].slots)]
    /\ ret' = Op("reset_sources", "", "", NoArgs, "", NoOutcome, NoOutline, NoEffect, <<>>)
               @@ [query |-> q]
    /\ UNCHANGED <<client_calls, replies, dispatched, registry>>

\* tool_manager.execute_tool(name, **input) for an invocation of query q
QueryExecute(q) ==
    /\ gen[q].executed < MaxRounds
    /\ \E name \in Names(registry) :
        \E ans \in SysAnswers(registry, name) :
            LET m == ManagerExecute(registry, last_sources, name, SysInput(name), ans)
                own == ManagerExecute(registry, gen[q].slots, name, SysInput(name), ans)
            IN /\ last_sources' = m.slots
               /\ gen' = [gen EXCEPT ![q].executed = @ + 1, ![q].slots = own.slots]
               /\ ret' = Op("execute_tool", m.tool, name,
                            IF name = OutlineName THEN NoArgs ELSE SysInput(name),
                            IF name = OutlineName THEN SysInput(name).course_title ELSE "",
                            ans.out, ans.outline, m.eff, <<>>)
                          @@ [query |-> q]
    /\ UNCHANGED <<client_calls, replies, dispatched, registry>>

\* tool_manager.get_last_sources() by query q
QueryRead(q) ==
    /\ ret' = Op("get_last_sources", "", "", NoArgs, "", NoOutcome, NoOutline, NoEffect,
                 GetLastSources(registry, last_sources))
               @@ [query |-> q]
    /\ UNCHANGED <<gen, client_calls, replies, dispatched, registry, last_sources>>

QueryNext ==
    \E q \in Queries :
        \/ QueryReset(q)
        \/ QueryExecute(q)
        \/ QueryRead(q)

QuerySpec == QueryInit /\ [][QueryNext]_vars

----------------------------------------------------------------------------
(* The query endpoint of the test application (tests/conftest.py): the      *)
(* handler query_documents on a mock of the RAG system.  Here client_calls  *)
(* is the log of the requests, replies the log of the responses, and        *)
(* dispatched the log of the calls the mocks received.                      *)

\* QueryRequest.session_id: absent, the empty string, or an id.
SessionIds == {None, Some(""), Some("session_1"), Some("session_2")}
QueryTexts == {"", "What is Python?"}
Requests == {[query |-> t, session_id |-> sid] : t \in QueryTexts, sid \in SessionIds}

\* mock_rag_system.session_manager.create_session.return_value
CreatedSession == "test_session_123"

\* What mock_rag_system.query does: return (answer, sources), the sources
\* dicts or plain strings, or raise (query.side_effect).
RagOutcomes ==
    {[raised |-> FALSE, error |-> "", answer |-> "Test response",
      sources |-> <<[kind |-> "dict", text |-> "Test source", link |-> None]>>],
     [raised |-> FALSE, error |-> "", answer |-> "Test response",
      sources |-> <<[kind |-> "str", text |-> "Plain source", link |-> None]>>],
     [raised |-> TRUE, error |-> "RAG system error", answer |-> "", sources |-> <<>>]}

\* Lines 161-166: a Source for every source, dict or plain string.
FormatSources(sources) ==
    [i \in 1..Len(sources) |->
        IF sources[i].kind = "dict"
        THEN [text |-> sources[i].text, link |-> sources[i].link]
        ELSE [text |-> sources[i].text, link |-> None]]

\* A handler that opens a session for every request.
QueryDocumentsAlwaysNew(request, outcome) ==
    [calls |-> <<[call |-> "create_session", query |-> "", session_id |-> ""],
                 [call |-> "query", query |-> request.query, session_id |-> CreatedSession]>>,
     response |->
        IF outcome.raised
        THEN [status |-> 500, detail |-> outcome.error, answer |-> "", sources |-> <<>>,
              session_id |-> None]
        ELSE [status |-> 200, detail |-> "", answer |-> outcome.answer,
              sources |-> FormatSources(outcome.sources),
              session_id |-> Some(CreatedSession)]]

\* query_documents (lines 156-176): the calls it makes on the mocks and the
\* response: QueryResponse with status 200, or the HTTPException with
\* status 500 and the text of the exception.
QueryDocuments(request, outcome) ==
    LET creates == ~Truthy(request.session_id)
        session_id == IF creates THEN CreatedSession ELSE Value(request.session_id)
    IN [calls |-> (IF creates
                   THEN <<[call |-> "create_session", query |-> "", session_id |-> ""]>>
                   ELSE <<>>)
                  \o <<[call |-> "query", query |-> request.query,
                        session_id |-> session_id]>>,
        response |->
            IF outcome.raised
            THEN [status |-> 500, detail |-> outcome.error, answer |-> "", sources |-> <<>>,
                  session_id |-> None]
            ELSE [status |-> 200, detail |-> "", answer |-> outcome.answer,
                  sources |-> FormatSources(outcome.sources),
                  session_id |-> Some(session_id)]]

\* POST /api/query
PostQuery ==
    /\ Len(client_calls) < MaxRequests
    /\ \E request \in Requests, outcome \in RagOutcomes :
        LET h == QueryDocuments(request, outcome) IN
        /\ client_calls' = Append(client_calls, request)
        /\ replies' = Append(replies, h.response)
        /\ dispatched' = dispatched \o h.calls
    /\ UNCHANGED gen
    /\ UNCHANGED tvars

EndpointNext == PostQuery

EndpointSpec == Init /\ [][EndpointNext]_vars

----------------------------------------------------------------------------
(* Properties of generate_response *)

IsToolUse(b) == b.type = "tool_use"
IsText(b) == b.type = "text"

\* The response answers in text and requests no tool.
PlainAnswer(r) ==
    /\ r.stop_reason # "tool_use"
    /\ Len(r.content) > 0
    /\ \A i \in 1..Len(r.content) : IsText(r.content[i])

\* The model answered call n, and with the stop reason tool_use.
RequestsTools(n) ==
    n <= Len(replies) /\ ~replies[n].raised
    /\ replies[n].response.stop_reason = "tool_use"

Apologizes == <<"I encountered an error while searching: ">>

\* C1: for every round budget b >= 1, when the model answers the first call
\* in text without requesting tools (a stop reason other than tool_use),
\* generate_response makes exactly one model call, dispatches no tool and
\* returns the text of that response unchanged.
C1_DirectAnswer ==
    (/\ gen.max_rounds >= 1
     /\ Len(replies) >= 1
     /\ ~replies[1].raised
     /\ PlainAnswer(replies[1].response))
    => /\ gen.pc = "done"
       /\ Len(client_calls) = 1
       /\ dispatched = <<>>
       /\ gen.result = Returned(replies[1].response.content[1].text)

C1_Witness ==
    /\ gen.pc = "done"
    /\ gen.max_rounds = 2
    /\ gen.tool_manager
    /\ Truthy(gen.tools)
    /\ Len(replies) = 1
    /\ ~replies[1].raised
    /\ PlainAnswer(replies[1].response)
    /\ gen.result = Returned(ModelText(1, 1))

\* C2: for every round budget b >= 1, when the model requests tools in every
\* round 1..b and every dispatch succeeds, generate_response makes exactly
\* b+1 model calls; calls 1..b carry the supplied tool schemas with the
\* automatic tool choice, call b+1 carries no schemas and no tool choice, and
\* the answer returned is the text of call b+1.  When no schemas are
\* supplied, no model call carries schemas.
C2_ForcedFinalCall ==
    LET b == gen.max_rounds IN
    /\ (/\ gen.pc = "done"
        /\ b >= 1
        /\ gen.tool_manager
        /\ \A n \in 1..b : RequestsTools(n)
        /\ \A i \in 1..Len(dispatched) : ~dispatched[i].raised)
       => /\ Len(client_calls) = b + 1
          /\ \A n \in 1..b :
                IF Truthy(gen.tools)
                THEN /\ client_calls[n].tools = gen.tools
                     /\ client_calls[n].tool_choice = Some([type |-> "auto"])
                ELSE /\ IsNone(client_calls[n].tools)
                     /\ IsNone(client_calls[n].tool_choice)
          /\ IsNone(client_calls[b + 1].tools)
          /\ IsNone(client_calls[b + 1].tool_choice)
          /\ (/\ ~replies[b + 1].raised
              /\ Len(replies[b + 1].response.content) > 0
              /\ IsText(replies[b + 1].response.content[1]))
             => gen.result = Returned(replies[b + 1].response.content[1].text)
    /\ ~Truthy(gen.tools)
       => \A n \in 1..Len(client_calls) :
            IsNone(client_calls[n].tools) /\ IsNone(client_calls[n].tool_choice)

C2_Witness ==
    /\ gen.pc = "done"
    /\ gen.max_rounds = 2
    /\ Truthy(gen.tools)
    /\ \A n \in 1..2 : RequestsTools(n)
    /\ Len(dispatched) >= 2
    /\ \A i \in 1..Len(dispatched) : ~dispatched[i].raised
    /\ Len(client_calls) = 3
    /\ gen.result = Returned(ModelText(3, 1))

\* C3: when a tool dispatch raises in round k <= b (the earlier rounds having
\* succeeded), generate_response makes exactly k model calls, performs no
\* dispatch and no model call after the raising one, and returns normally a
\* text that starts with the apology "I encountered an error while
\* searching:" and contains the message of the exception.
C3_ToolFailureApology ==
    \A i \in 1..Len(dispatched) :
        dispatched[i].raised
        => /\ i = Len(dispatched)
           /\ dispatched[i].round <= gen.max_rounds
           /\ Len(client_calls) = dispatched[i].round
           /\ gen.pc = "done"
           /\ gen.result.kind = "return"
           /\ StartsWith(gen.result.text, Apologizes)
           /\ Contains(gen.result.text, dispatched[i].text)

C3_Witness ==
    /\ Len(dispatched) >= 2
    /\ dispatched[Len(dispatched)].raised
    /\ dispatched[Len(dispatched)].round = 2
    /\ ~dispatched[1].raised
    /\ gen.pc = "done"
    /\ Len(client_calls) = 2

\* C4: a model-call error is never swallowed: when any model call of
\* generate_response (the first, a later round's or the final one) raises,
\* generate_response raises that same error, returns no text, and performs
\* no further model call or tool dispatch.
C4_ModelErrorPropagates ==
    \A n \in 1..Len(replies) :
        replies[n].raised
        => /\ n = Len(replies)
           /\ Len(client_calls) = n
           /\ gen.pc = "done"
           /\ gen.result = Raised(replies[n].error)
           /\ \A i \in 1..Len(dispatched) : dispatched[i].round < n

C4_Witness ==
    /\ gen.pc = "done"
    /\ gen.max_rounds = 2
    /\ Len(replies) = 3
    /\ replies[3].raised
    /\ gen.result = Raised(ApiError(3))
    /\ Len(dispatched) >= 2

----------------------------------------------------------------------------
(* Properties of the tool layer *)

RegisteredTools(reg) == {reg[i].tool : i \in 1..Len(reg)}

\* The operation was an execute_tool that reached the CourseSearchTool t and
\* whose search returned k passages and no error.
SearchedWith(r, t, k) ==
    /\ r.op = "execute_tool"
    /\ r.tool = t
    /\ ~r.outcome.raised
    /\ IsNone(r.outcome.error)
    /\ Len(r.outcome.passages) = k

\* C5: the citation overwrite law: executing CourseSearchTool.execute twice
\* in sequence on the same tool instance, first with a search outcome of 2
\* passages and then with an outcome of 0 passages and no error, leaves
\* ToolManager.get_last_sources() empty.
C5_CitationOverwrite ==
    [][\A t \in SearchTools :
        (/\ SearchedWith(ret, t, 2)
         /\ SearchedWith(ret', t, 0)
         /\ \A u \in Tools \ {t} : last_sources[u] = <<>>)
        => GetLastSources(registry', last_sources') = <<>>]_vars

\* The operation registers tool t whose name is the name of another tool of
\* the registry reg.
RegistersDuplicate(r, reg, t) ==
    /\ r.op = "register_tool"
    /\ r.tool = t
    /\ Truthy(DefinitionName(t))
    /\ Value(DefinitionName(t)) \in Names(reg)
    /\ Lookup(reg, Value(DefinitionName(t))) # t

\* C6: ToolManager.register_tool fails when a tool is registered whose
\* declared name equals the name of an already registered tool; the
\* previously registered tool stays registered and reachable by dispatch.
C6_DuplicateNameFails ==
    [][\A t \in Tools :
        RegistersDuplicate(ret', registry, t)
        => /\ ret'.result.kind = "raise"
           /\ Lookup(registry', Value(DefinitionName(t)))
                = Lookup(registry, Value(DefinitionName(t)))]_vars

\* C6, amended: register_tool does not fail when the declared name of the
\* tool equals the name of an already registered tool: it returns normally
\* and the new tool takes the place of the previously registered one, which
\* is no longer registered nor reachable by dispatch; no citation slot
\* changes.
C6_DuplicateNameReplaces ==
    [][\A t \in Tools :
        RegistersDuplicate(ret', registry, t)
        => LET name == Value(DefinitionName(t)) IN
           /\ ret'.result = Returned(<<>>)
           /\ Lookup(registry', name) = t
           /\ Lookup(registry, name) \notin RegisteredTools(registry')
           /\ Len(registry') = Len(registry)
           /\ IndexOf(registry', name) = IndexOf(registry, name)
           /\ last_sources' = last_sources]_vars

C6_Witness ==
    /\ ret.op = "register_tool"
    /\ ret.tool = "search_b"
    /\ ret.result = Returned(<<>>)
    /\ Len(registry) = 2
    /\ Lookup(registry, SearchName) = "search_b"
    /\ "search_a" \notin RegisteredTools(registry)
    /\ last_sources["search_a"] # <<>>

----------------------------------------------------------------------------
(* Properties of one round of generate_response *)

\* The tool_use blocks of a response content, in the order of the content.
InvocationsOf(content) == SelectSeq(content, IsToolUse)

\* The dispatches of round n, in the order they were made.
DispatchesOf(n) == SelectSeq(dispatched, LAMBDA d : d.round = n)

\* Round n went through all its blocks: the loop is at a later call.
RoundComplete(n) ==
    \/ n < Len(client_calls)
    \/ n = Len(client_calls) /\ gen.pc \in {"round", "final"}

\* The conversation the loop holds after round n.
ConversationAfter(n) ==
    IF n < Len(client_calls) THEN client_calls[n + 1].messages ELSE gen.messages

\* The tool-result turn of invocations inv answered by the dispatches ds.
ResultTurn(inv, ds) ==
    Turn("user", [i \in 1..Len(inv) |->
                    [type |-> "tool_result", tool_use_id |-> inv[i].id,
                     content |-> ds[i].text]])

\* C7: within one round the requested invocations are dispatched one at a
\* time in the order the model emitted them, each with exactly the name and
\* the arguments of its invocation, and text blocks are not dispatched; on
\* full success exactly one tool-result turn (role user) is appended, which
\* holds one record per invocation, in invocation order, each with the
\* identifier of its invocation and the result text of that invocation.
C7_OrderedDispatch ==
    \A n \in 1..Len(replies) :
        ~replies[n].raised
        => LET content == replies[n].response.content
               inv == InvocationsOf(content)
               ds == DispatchesOf(n)
           IN /\ Len(ds) <= Len(inv)
              /\ \A i \in 1..Len(ds) :
                    /\ ds[i].name = inv[i].name
                    /\ ds[i].input = inv[i].input
                    /\ IsToolUse(content[ds[i].block])
                    /\ \A j \in 1..(i - 1) : ds[j].block < ds[i].block
              /\ (RoundComplete(n) /\ Len(inv) > 0)
                 => /\ Len(ds) = Len(inv)
                    /\ \A i \in 1..Len(ds) : ~ds[i].raised
                    /\ ConversationAfter(n)
                        = client_calls[n].messages
                          \o <<Turn("assistant", content), ResultTurn(inv, ds)>>

C7_Witness ==
    /\ Len(client_calls) = 2
    /\ Len(InvocationsOf(replies[1].response.content)) = 2
    /\ Len(DispatchesOf(1)) = 2
    /\ Len(client_calls[2].messages) = 3
    /\ Len(client_calls[2].messages[3].content) = 2
    /\ client_calls[2].messages[3].content[2].tool_use_id = ToolUseId(1, 2)
    /\ client_calls[2].messages[3].content[2].content = ToolResult(1, 2)

\* C8: fail-fast within a batch: when the j-th invocation of a round with
\* n >= j invocations raises, exactly j dispatches happen in that round, the
\* invocations j+1..n are never dispatched, and no tool-result turn is
\* produced for that round.
C8_FailFast ==
    \A i \in 1..Len(dispatched) :
        dispatched[i].raised
        => LET k == dispatched[i].round
               content == replies[k].response.content
               inv == InvocationsOf(content)
               ds == DispatchesOf(k)
               j == Len(ds)
           IN /\ i = Len(dispatched)
              /\ ds[j] = dispatched[i]
              /\ j <= Len(inv)
              /\ ds[j].name = inv[j].name
              /\ \A m \in 1..(j - 1) : ~ds[m].raised
              /\ gen.pc = "done"
              /\ gen.messages = client_calls[k].messages
              /\ gen.updated = Append(client_calls[k].messages, Turn("assistant", content))

C8_Witness ==
    /\ Len(dispatched) = 1
    /\ dispatched[1].raised
    /\ Len(InvocationsOf(replies[1].response.content)) = 2
    /\ gen.pc = "done"

\* C9: the conversation passed to the successive model calls of one
\* generate_response call only grows by appending: the turns sent in call n
\* are an unchanged prefix of the turns sent in call n+1, and after r fully
\* successful rounds, each with at least one invocation, call r+1 receives
\* exactly 2r+1 turns: the user query followed by r pairs of an assistant
\* tool-invocation turn and a user tool-result turn.
C9_AppendOnly ==
    /\ \A n \in 1..(Len(client_calls) - 1) :
        /\ IsPrefix(client_calls[n].messages, client_calls[n + 1].messages)
        /\ Len(client_calls[n].messages) < Len(client_calls[n + 1].messages)
    /\ \A n \in 1..Len(client_calls) :
        (\A m \in 1..(n - 1) : Len(InvocationsOf(replies[m].response.content)) > 0)
        => LET ms == client_calls[n].messages IN
           /\ Len(ms) = 2 * (n - 1) + 1
           /\ ms[1] = Turn("user", StrContent(Query))
           /\ \A r \in 1..(n - 1) :
                /\ ms[2 * r] = Turn("assistant", replies[r].response.content)
                /\ ms[2 * r + 1].role = "user"
                /\ Len(ms[2 * r + 1].content)
                    = Len(InvocationsOf(replies[r].response.content))
                /\ \A i \in 1..Len(ms[2 * r + 1].content) :
                    ms[2 * r + 1].content[i].type = "tool_result"

C9_Witness ==
    /\ Len(client_calls) = 3
    /\ Len(client_calls[3].messages) = 5
    /\ client_calls[3].messages[4].role = "assistant"
    /\ client_calls[3].messages[5].role = "user"

\* The first text block of a content that has one.
HasText(content) == \E i \in 1..Len(content) : IsText(content[i])
FirstTextOf(content) ==
    content[CHOOSE i \in 1..Len(content) :
                IsText(content[i]) /\ \A j \in 1..(i - 1) : ~IsText(content[j])].text

\* C10: when the response of the model requests tool use and no dispatcher
\* (tool_manager) is available, generate_response makes no further model
\* call and returns normally: the text fragment of the response if it has
\* one, and the fixed text "No response available" if the response carries
\* no text at all (a content of tool invocations only included).
C10_NoDispatcherFallback ==
    \A n \in 1..Len(replies) :
        (RequestsTools(n) /\ n <= gen.max_rounds /\ ~gen.tool_manager)
        => LET content == replies[n].response.content IN
           /\ gen.pc = "done"
           /\ Len(client_calls) = n
           /\ dispatched = <<>>
           /\ gen.result = Returned(IF HasText(content) THEN FirstTextOf(content)
                                    ELSE <<"No response available">>)

----------------------------------------------------------------------------
(* Properties of the round budget *)

\* C11: for every round budget max_rounds <= 0, generate_response makes
\* exactly one model call, that call carries no tool schemas (and no tool
\* choice) even when schemas were supplied, no tool is dispatched, and the
\* text of that call's response is returned.
C11_NoBudget ==
    (gen.pc # "idle" /\ gen.max_rounds <= 0)
    => /\ Len(client_calls) <= 1
       /\ dispatched = <<>>
       /\ gen.pc \in {"final", "done"}
       /\ gen.pc = "done"
          => /\ Len(client_calls) = 1
             /\ IsNone(client_calls[1].tools)
             /\ IsNone(client_calls[1].tool_choice)
             /\ client_calls[1].messages = <<Turn("user", StrContent(Query))>>
             /\ (/\ ~replies[1].raised
                 /\ Len(replies[1].response.content) > 0
                 /\ IsText(replies[1].response.content[1]))
                => gen.result = Returned(replies[1].response.content[1].text)

C11_Witness ==
    /\ gen.pc = "done"
    /\ gen.max_rounds < 0
    /\ Truthy(gen.tools)
    /\ gen.tool_manager
    /\ Len(client_calls) = 1
    /\ replies[1].response.stop_reason = "tool_use"
    /\ gen.result = Returned(ModelText(1, 1))

\* C12: when the model returns the stop reason tool_use but its response
\* contains zero tool invocations, the round still performs at least one
\* dispatch attempt before the next model call.
C12_EmptyRoundDispatches ==
    \A n \in 1..Len(replies) :
        (/\ RequestsTools(n)
         /\ n <= gen.max_rounds
         /\ gen.tool_manager
         /\ Len(InvocationsOf(replies[n].response.content)) = 0
         /\ Len(client_calls) > n)
        => Len(DispatchesOf(n)) >= 1

\* C13: after the tools of round b = max_rounds succeed, exactly one final
\* model call is made and its text is returned regardless of its stop
\* reason: even if the final response again has the stop reason tool_use,
\* no tool is dispatched for it and no model call is made after it.
C13_FinalAnswer ==
    LET b == gen.max_rounds IN
    /\ (gen.pc # "idle" /\ b >= 1) => Len(client_calls) <= b + 1
    /\ (b >= 1 /\ Len(replies) = b + 1)
       => /\ gen.pc = "done"
          /\ Len(client_calls) = b + 1
          /\ \A n \in 1..b : RequestsTools(n)
          /\ \A i \in 1..Len(dispatched) :
                dispatched[i].round <= b /\ ~dispatched[i].raised
          /\ (/\ ~replies[b + 1].raised
              /\ Len(replies[b + 1].response.content) > 0
              /\ IsText(replies[b + 1].response.content[1]))
             => gen.result = Returned(replies[b + 1].response.content[1].text)

C13_Witness ==
    /\ gen.pc = "done"
    /\ gen.max_rounds = 2
    /\ Len(replies) = 3
    /\ ~replies[3].raised
    /\ replies[3].response.stop_reason = "tool_use"
    /\ Len(replies[3].response.content) = 2
    /\ IsText(replies[3].response.content[1])
    /\ IsToolUse(replies[3].response.content[2])
    /\ gen.result = Returned(ModelText(3, 1))
    /\ Len(dispatched) >= 2

----------------------------------------------------------------------------
(* Properties of generate_response on the application's ToolManager *)

\* The index answered the dispatch d so that the tool has no content to
\* return: unknown tool name, search error message, empty search result,
\* unresolved course.
UnknownTool(d) == d.tool = ""
SearchErrored(d) == d.tool \in SearchTools /\ ~d.answer.out.raised /\ Truthy(d.answer.out.error)
SearchEmpty(d) ==
    /\ d.tool \in SearchTools
    /\ ~d.answer.out.raised
    /\ ~Truthy(d.answer.out.error)
    /\ Len(d.answer.out.passages) = 0
Unresolved(d) == d.tool \in OutlineTools /\ ~Truthy(d.answer.outline.resolved)
SoftFailure(d) == UnknownTool(d) \/ SearchErrored(d) \/ SearchEmpty(d) \/ Unresolved(d)

\* C14: a tool result that is a soft failure returned as text (unknown tool
\* name, search error message, empty-result message, unresolved course) does
\* not abort the round: the dispatch does not raise, the text is folded into
\* the tool-result turn like any other result, the apology path is not taken
\* because of it, and the model is called again.
C14_SoftFailureFolded ==
    \A i \in 1..Len(dispatched) :
        LET d == dispatched[i] IN
        SoftFailure(d)
        => /\ ~d.raised
           /\ UnknownTool(d) => d.text = <<"Tool '", d.name, "' not found">>
           /\ SearchErrored(d) => d.text = Value(d.answer.out.error)
           /\ SearchEmpty(d) => StartsWith(d.text, <<"No relevant content found">>)
           /\ Unresolved(d)
              => d.text = <<"No course found matching '", d.input.course_title, "'">>
           /\ (i = Len(dispatched) /\ gen.pc = "done") => Len(client_calls) > d.round
           /\ (gen.result.kind = "return" /\ StartsWith(gen.result.text, Apologizes))
              => (i < Len(dispatched) /\ dispatched[Len(dispatched)].raised)
           /\ Len(client_calls) > d.round
              => /\ Len(client_calls[d.round + 1].messages) = 2 * d.round + 1
                 /\ client_calls[d.round + 1].messages[2 * d.round + 1].role = "user"
                 /\ client_calls[d.round + 1].messages[2 * d.round + 1].content[d.block]
                      = [type |-> "tool_result", tool_use_id |-> ToolUseId(d.round, d.block),
                         content |-> d.text]

C14_Witness ==
    /\ gen.pc = "done"
    /\ gen.result = Returned(ModelText(3, 1))
    /\ Len(dispatched) = 4
    /\ UnknownTool(dispatched[1])
    /\ SearchErrored(dispatched[2])
    /\ SearchEmpty(dispatched[3])
    /\ Unresolved(dispatched[4])
    /\ Len(client_calls) = 3

----------------------------------------------------------------------------
(* Properties of ToolManager and of the citation slots *)

\* C15: ToolManager.execute_tool with a name that is not registered returns
\* the text "Tool '<name>' not found" with exactly that name, does not
\* raise, executes no registered tool (no call reaches the index), and
\* leaves the registry and every tool's citation slot unchanged.
C15_UnknownToolText ==
    [][(ret'.op = "execute_tool" /\ ret'.name \notin Names(registry))
       => /\ ret'.result = Returned(<<"Tool '", ret'.name, "' not found">>)
          /\ ret'.tool = ""
          /\ ret'.outcome = NoOutcome
          /\ ret'.outline = NoOutline
          /\ ret'.lookups = <<>>
          /\ last_sources' = last_sources
          /\ registry' = registry]_vars

C15_Witness ==
    /\ ret.op = "execute_tool"
    /\ ret.name = "no_such_tool"
    /\ ret.result = Returned(<<"Tool '", "no_such_tool", "' not found">>)
    /\ Len(registry) = 2
    /\ \A i \in 1..Len(registry) : last_sources[registry[i].tool] # <<>>

\* The positions of the registry whose tool holds a nonempty batch.
Filled(reg, slots) == {i \in 1..Len(reg) : slots[reg[i].tool] # <<>>}

RecordedBatch(r) ==
    /\ r.op = "execute_tool"
    /\ r.result.kind = "return"
    /\ \/ /\ r.tool \in SearchTools
          /\ ~Truthy(r.outcome.error)
          /\ Len(r.outcome.passages) > 0
       \/ /\ r.tool \in OutlineTools
          /\ Truthy(r.outline.resolved)
          /\ ~IsNone(FindCourse(r.outline.courses, Value(r.outline.resolved)))

\* C17: when more than one registered tool holds a nonempty citation batch,
\* get_last_sources returns the most recent one: the batch recorded by the
\* tool execution that happened last.
C17_MostRecentBatch ==
    [][(/\ RecordedBatch(ret)
        /\ ret'.op = "get_last_sources"
        /\ \E u \in RegisteredTools(registry) \ {ret.tool} : last_sources[u] # <<>>)
       => ret'.sources = last_sources[ret.tool]]_vars

\* What a reset_sources step does, for C18 and its amended form.
ResetStep ==
    ret'.op = "reset_sources"
    => /\ \A t \in RegisteredTools(registry) : last_sources'[t] = <<>>
       /\ registry' = registry
       /\ GetToolDefinitions(registry') = GetToolDefinitions(registry)
       /\ GetLastSources(registry', last_sources') = <<>>

\* C18: ToolManager.reset_sources empties the citation slot of every
\* registered tool; from then on get_last_sources returns the empty list
\* until some tool execution records a nonempty batch, and the set of
\* registered tools and their schemas are unchanged.  The part "from then
\* on" is stated for the operation that follows the reset.
C18_ResetUntilExecution ==
    [][/\ ResetStep
       /\ (ret.op = "reset_sources" /\ ~RecordedBatch(ret'))
          => GetLastSources(registry', last_sources') = <<>>]_vars

\* C18, amended: reset_sources empties the slot of every registered tool and
\* leaves the registered tools and their schemas unchanged; the slot of a
\* tool that is not registered is not emptied.  Whenever get_last_sources
\* would return the empty list (after a reset in particular), it keeps
\* returning the empty list until a tool execution records a nonempty batch
\* or register_tool registers a tool whose slot is nonempty.
C18_ResetUntilExecutionOrRegistration ==
    [][/\ ResetStep
       /\ ret'.op = "reset_sources"
          => \A t \in Tools \ RegisteredTools(registry) : last_sources'[t] = last_sources[t]
       /\ (/\ GetLastSources(registry, last_sources) = <<>>
           /\ ~RecordedBatch(ret')
           /\ ~(ret'.op = "register_tool" /\ last_sources[ret'.tool] # <<>>))
          => GetLastSources(registry', last_sources') = <<>>]_vars

C18_Witness ==
    /\ ret.op = "reset_sources"
    /\ Len(registry) = 2
    /\ \A t \in RegisteredTools(registry) : last_sources[t] = <<>>
    /\ \E t \in Tools \ RegisteredTools(registry) : last_sources[t] # <<>>

\* C19: after any sequence of CourseSearchTool executions the tool's
\* citation slot holds exactly the citations of the one most recent
\* execution: one citation per passage of that execution's search outcome
\* (none for an outcome without passages), never the citations of an
\* earlier execution nor the union or concatenation of several.
C19_SlotOfLastExecution ==
    [][\A t \in SearchTools :
        (ret'.op = "execute_tool" /\ ret'.tool = t /\ ~ret'.outcome.raised)
        => /\ Len(last_sources'[t]) = Len(ret'.outcome.passages)
           /\ \A i \in 1..Len(ret'.outcome.passages) :
                last_sources'[t][i].text = SourceText(ret'.outcome.passages[i].meta)]_vars

\* C20: for a search outcome with n >= 1 passages CourseSearchTool records
\* exactly n citations in passage rank order: a passage with a title and a
\* lesson number k gets the display text "<title> - Lesson <k>" and the link
\* the index returns for (title, k); a passage without a lesson number gets
\* the title as display text and no link, and no link lookup is made for it.
C20_CitationsInRankOrder ==
    (/\ ret.op = "execute_tool"
     /\ ret.tool \in SearchTools
     /\ ~ret.outcome.raised
     /\ ~Truthy(ret.outcome.error)
     /\ Len(ret.outcome.passages) >= 1)
    => LET ps == ret.outcome.passages
           cs == last_sources[ret.tool]
           withLesson == {i \in 1..Len(ps) : ~IsNone(ps[i].meta.lesson_number)}
       IN /\ Len(cs) = Len(ps)
          /\ \A i \in 1..Len(ps) :
                LET title == Value(ps[i].meta.course_title) IN
                IF i \in withLesson
                THEN LET k == Value(ps[i].meta.lesson_number) IN
                     /\ cs[i].text = <<title, " - Lesson ", ToString(k)>>
                     /\ cs[i].link = GetLessonLink(title, k)
                ELSE /\ cs[i].text = <<title>>
                     /\ IsNone(cs[i].link)
          /\ Len(ret.lookups) = Cardinality(withLesson)
          /\ \A j \in 1..Len(ret.lookups) :
                \E i \in withLesson :
                    /\ Cardinality({h \in withLesson : h <= i}) = j
                    /\ ret.lookups[j] = <<Value(ps[i].meta.course_title),
                                          Value(ps[i].meta.lesson_number)>>

C20_Witness ==
    /\ ret.op = "execute_tool"
    /\ ret.tool \in SearchTools
    /\ Len(ret.outcome.passages) = 2
    /\ IsNone(ret.outcome.passages[1].meta.lesson_number)
    /\ ~IsNone(ret.outcome.passages[2].meta.lesson_number)
    /\ last_sources[ret.tool]
        = <<[text |-> <<"Intro">>, link |-> None],
            [text |-> <<"Intro", " - Lesson ", "1">>, link |-> Some(LessonLink)]>>
    /\ ret.lookups = <<<<"Intro", 1>>>>

----------------------------------------------------------------------------
(* Properties of CourseSearchTool.execute *)

\* The execution got a search outcome without failure.
Searched(r) == r.op = "execute" /\ ~r.outcome.raised

\* C21: when the search outcome carries an error message,
\* CourseSearchTool.execute returns exactly that message as its result text,
\* does not raise, and renders no passage (no header, no link lookup).
C21_ErrorVerbatim ==
    (Searched(ret) /\ Truthy(ret.outcome.error))
    => /\ ret.result = Returned(Value(ret.outcome.error))
       /\ ret.lookups = <<>>
       /\ ~Contains(ret.result.text, <<"[">>)

C21_Witness ==
    /\ Searched(ret)
    /\ ret.outcome.error = Some(SearchError)
    /\ ~IsNone(ret.args.course_name)
    /\ ret.result = Returned(SearchError)

\* C22: when the search outcome has zero passages and no error,
\* CourseSearchTool.execute returns "No relevant content found" followed by
\* a course qualifier exactly when a course_name filter was passed and a
\* lesson qualifier exactly when a lesson_number filter was passed, for
\* every filter value (lesson number 0 included), ending with a period;
\* with no filters the result is exactly "No relevant content found.".
C22_EmptyResultQualifiers ==
    (/\ Searched(ret)
     /\ ~Truthy(ret.outcome.error)
     /\ Len(ret.outcome.passages) = 0)
    => ret.result
        = Returned(<<"No relevant content found">>
                   \o (IF IsNone(ret.args.course_name) THEN <<>>
                       ELSE <<" in course '">> \o Value(ret.args.course_name) \o <<"'">>)
                   \o (IF IsNone(ret.args.lesson_number) THEN <<>>
                       ELSE <<" in lesson ", ToString(Value(ret.args.lesson_number))>>)
                   \o <<".">>)

\* The text of the passages ps as C23 states it: for each passage the tag
\* "[<title>]" or "[<title> - Lesson <n>]" of the passage's own metadata, a
\* line break and the passage, the passages separated by a blank line.
TaggedText(ps) ==
    LET tag(p) == IF IsNone(p.meta.lesson_number)
                  THEN <<"[", Value(p.meta.course_title), "]">>
                  ELSE <<"[", Value(p.meta.course_title), " - Lesson ",
                         ToString(Value(p.meta.lesson_number)), "]">>
        F[i \in 0..Len(ps)] ==
            IF i = 0 THEN <<>>
            ELSE (IF i = 1 THEN <<>> ELSE F[i - 1] \o <<"\n\n">>)
                 \o tag(ps[i]) \o <<"\n", ps[i].doc>>
    IN F[Len(ps)]

\* C23: CourseSearchTool.execute calls the index search exactly once per
\* execution, passing query, course_name and lesson_number unchanged (absent
\* filters as None); the header tag of each rendered passage uses the title
\* and lesson number stored with the passage, not the caller's course_name,
\* so the course_name "intro" with a passage of course "Intro", lesson 1,
\* yields content tagged "[Intro - Lesson 1]".
C23_SearchPassThrough ==
    ret.op = "execute"
    => /\ ret.searches = <<[query |-> ret.args.query,
                            course_name |-> ret.args.course_name,
                            lesson_number |-> ret.args.lesson_number]>>
       /\ (/\ ~ret.outcome.raised
           /\ ~Truthy(ret.outcome.error)
           /\ Len(ret.outcome.passages) > 0)
          => ret.result = Returned(TaggedText(ret.outcome.passages))

C23_Witness ==
    /\ ret.op = "execute"
    /\ ret.args.course_name = Some(<<"intro">>)
    /\ ret.args.lesson_number = Some(1)
    /\ ret.searches[1].course_name = Some(<<"intro">>)
    /\ ret.searches[1].lesson_number = Some(1)
    /\ Len(ret.outcome.passages) = 1
    /\ ret.result = Returned(<<"[", "Intro", " - Lesson ", "1", "]", "\n", "passage 1">>)

----------------------------------------------------------------------------
(* Properties of CourseOutlineTool.execute *)

\* The operation was an execute_tool that reached a CourseOutlineTool.
Outlined(r) == r.op = "execute_tool" /\ r.tool \in OutlineTools

\* The index resolved the title and returned the metadata of that course.
OutlineFound(r) ==
    /\ Outlined(r)
    /\ Truthy(r.outline.resolved)
    /\ \E i \in 1..Len(r.outline.courses) :
        r.outline.courses[i].title = Value(r.outline.resolved)

\* The metadata of the resolved course.
FoundCourse(r) ==
    r.outline.courses[CHOOSE i \in 1..Len(r.outline.courses) :
                        r.outline.courses[i].title = Value(r.outline.resolved)]

\* C24: CourseOutlineTool.execute with a title the index cannot resolve
\* returns exactly "No course found matching '<input>'", does not raise,
\* fetches no metadata (the only call on the index is the resolution), and
\* leaves the citation slot of every tool untouched.
C24_UnresolvedTitle ==
    [][(Outlined(ret') /\ ~Truthy(ret'.outline.resolved))
       => /\ ret'.result = Returned(<<"No course found matching '", ret'.title, "'">>)
          /\ ret'.calls = <<<<"_resolve_course_name", ret'.title>>>>
          /\ last_sources' = last_sources
          /\ registry' = registry]_vars

C24_Witness ==
    /\ Outlined(ret)
    /\ ret.title = "nosuchcourse"
    /\ ret.result = Returned(<<"No course found matching '", "nosuchcourse", "'">>)
    /\ \E t \in SearchTools : last_sources[t] # <<>>
    /\ last_sources[ret.tool] # <<>>

\* C25: every CourseOutlineTool.execute that resolves the title and finds
\* the metadata of the course leaves the tool's citation slot holding
\* exactly one citation, {text: the course title, link: the course link or
\* None}, whatever the slot held before; no other slot changes.
C25_OutlineCitation ==
    [][OutlineFound(ret')
       => /\ last_sources'[ret'.tool]
                = <<[text |-> <<FoundCourse(ret').title>>,
                     link |-> FoundCourse(ret').course_link]>>
          /\ \A u \in Tools \ {ret'.tool} : last_sources'[u] = last_sources[u]]_vars

C25_Witness ==
    /\ OutlineFound(ret)
    /\ ~IsNone(FoundCourse(ret).course_link)
    /\ last_sources[ret.tool] = <<[text |-> <<"Intro">>, link |-> Some(CourseLink)]>>
    /\ \E t \in SearchTools : Len(last_sources[t]) > 1

\* The last k tokens of a text.
LastTokens(t, k) == SubSeq(t, Len(t) - k + 1, Len(t))

\* C26: the outline rendered by CourseOutlineTool lists one line
\* "Lesson <number>: <title>" per lesson in ascending lesson-number order,
\* for every order in which the course metadata stores its lessons.
C26_LessonsAscending ==
    (OutlineFound(ret) /\ Len(FoundCourse(ret).lessons) > 0)
    => LET ls == FoundCourse(ret).lessons
           lines == LastTokens(ret.result.text, Len(ls))
       IN /\ ret.result.kind = "return"
          /\ \A i \in 1..Len(ls) :
                \E j \in 1..Len(ls) :
                    lines[i] = "Lesson " \o ToString(ls[j].lesson_number) \o ": "
                               \o ls[j].lesson_title
          /\ \A i, j \in 1..Len(ls) :
                (i < j) =>
                    \E a, b \in 1..Len(ls) :
                        /\ ls[a].lesson_number < ls[b].lesson_number
                        /\ lines[i] = "Lesson " \o ToString(ls[a].lesson_number) \o ": "
                                      \o ls[a].lesson_title
                        /\ lines[j] = "Lesson " \o ToString(ls[b].lesson_number) \o ": "
                                      \o ls[b].lesson_title

\* C26, amended: the outline lists one line "Lesson <number>: <title>" per
\* lesson in the order in which the course metadata stores its lessons; the
\* lines are in ascending lesson-number order only when the metadata stores
\* the lessons in that order.
C26_LessonsInStoredOrder ==
    (OutlineFound(ret) /\ Len(FoundCourse(ret).lessons) > 0)
    => LET ls == FoundCourse(ret).lessons
           lines == LastTokens(ret.result.text, Len(ls))
       IN /\ ret.result.kind = "return"
          /\ \A i \in 1..Len(ls) :
                lines[i] = "Lesson " \o ToString(ls[i].lesson_number) \o ": "
                           \o ls[i].lesson_title
          /\ ret.result.text[Len(ret.result.text) - Len(ls)] = "\n**Course Outline:**"

C26_Witness ==
    /\ OutlineFound(ret)
    /\ Len(FoundCourse(ret).lessons) = 2
    /\ FoundCourse(ret).lessons[1].lesson_number = 2
    /\ FoundCourse(ret).lessons[2].lesson_number = 1
    /\ LastTokens(ret.result.text, 2)
        = <<"Lesson 2: Lesson title 2", "Lesson 1: Lesson title 1">>

----------------------------------------------------------------------------
(* Properties of ToolManager.register_tool and get_tool_definitions *)

\* C27: register_tool raises (ValueError) when the tool's definition has no
\* name, missing or empty, and then the registry is unchanged: the same
\* tools under the same names in the same order, the same definitions, the
\* same citation slots.
C27_NamelessRejected ==
    [][(ret'.op = "register_tool" /\ ~Truthy(DefinitionName(ret'.tool)))
       => /\ ret'.result.kind = "raise"
          /\ ret'.result.exc = "ValueError"
          /\ registry' = registry
          /\ GetToolDefinitions(registry') = GetToolDefinitions(registry)
          /\ last_sources' = last_sources]_vars

C27_Witness ==
    /\ ret.op = "register_tool"
    /\ ret.tool = "empty_name"
    /\ ret.result.kind = "raise"
    /\ Len(registry) = 2
    /\ \E t \in Tools : last_sources[t] # <<>>

\* The operation was a register_tool that returned.
Registered(r) == r.op = "register_tool" /\ r.result.kind = "return"

\* C28: get_tool_definitions returns the schema of every registered tool,
\* exactly once each, in the order the tools were registered: the schema of
\* the tool registered last is the last of the list.
C28_RegistrationOrder ==
    [][Registered(ret')
       => LET defs == GetToolDefinitions(registry') IN
          /\ Len(defs) = Len(registry')
          /\ \A i, j \in 1..Len(defs) : (defs[i] = defs[j]) => (i = j)
          /\ defs[Len(defs)] = DefinitionName(ret'.tool)]_vars

\* C28, amended: get_tool_definitions returns the schema of every registered
\* tool, exactly once each, in the order in which their names were first
\* registered: a registration under a new name adds its schema at the end, a
\* registration under a name already present puts the tool in the place of
\* the tool it replaces and leaves the list of schemas as it was.
C28_FirstRegistrationOrder ==
    [][Registered(ret')
       => LET defs == GetToolDefinitions(registry')
              name == Value(DefinitionName(ret'.tool))
          IN /\ Len(defs) = Len(registry')
             /\ \A i, j \in 1..Len(defs) : (defs[i] = defs[j]) => (i = j)
             /\ \A i \in 1..Len(defs) : defs[i] = Some(registry'[i].name)
             /\ IF name \in Names(registry)
                THEN /\ defs = GetToolDefinitions(registry)
                     /\ registry'[IndexOf(registry, name)].tool = ret'.tool
                     /\ \A i \in 1..Len(registry) :
                            (registry[i].name # name) => (registry'[i] = registry[i])
                ELSE /\ defs = Append(GetToolDefinitions(registry), Some(name))
                     /\ registry' = Append(registry, [name |-> name, tool |-> ret'.tool])]_vars

C28_Witness ==
    /\ Registered(ret)
    /\ ret.tool = "search_b"
    /\ registry = <<[name |-> SearchName, tool |-> "search_b"],
                    [name |-> OutlineName, tool |-> "outline"]>>
    /\ GetToolDefinitions(registry) = <<Some(SearchName), Some(OutlineName)>>

----------------------------------------------------------------------------
(* Properties of the system content *)

\* The text is the content, or part of the content, of a turn of the call.
InTurns(call, text) ==
    \E i \in 1..Len(call.messages) :
        \E j \in 1..Len(call.messages[i].content) :
            LET b == call.messages[i].content[j] IN
            \/ b.type \in {"str", "text"} /\ Contains(b.text, text)
            \/ b.type = "tool_result" /\ Contains(b.content, text)

\* C29: every model call of one generate_response call carries the same
\* system text: the fixed instructions alone when no history is given (None
\* or the empty text), and otherwise the fixed instructions, the heading
\* "Previous conversation:" and the history text verbatim at the end; the
\* history is in no conversation turn and the first turn is the user query.
C29_SystemContent ==
    LET h == gen.conversation_history IN
    \A n \in 1..Len(client_calls) :
        /\ client_calls[n].system = gen.system_content
        /\ client_calls[n].system[1] = SYSTEM_PROMPT
        /\ IF Truthy(h)
           THEN /\ client_calls[n].system
                    = <<SYSTEM_PROMPT, "\n\nPrevious conversation:\n">> \o Value(h)
                /\ ~InTurns(client_calls[n], Value(h))
           ELSE client_calls[n].system = <<SYSTEM_PROMPT>>
        /\ client_calls[n].messages[1] = Turn("user", StrContent(Query))

C29_Witness ==
    /\ Len(client_calls) = 3
    /\ Truthy(gen.conversation_history)
    /\ \A n \in 1..3 :
        client_calls[n].system[Len(client_calls[n].system)] = "User: hi\nAssistant: hello"
    /\ Len(client_calls[3].messages) = 5

----------------------------------------------------------------------------
(* Termination of generate_response *)

Started == gen.pc # "idle"
Done == gen.pc = "done"

\* Every call that has started reaches DONE.
Terminates == Started ~> Done

\* At most max_rounds + 1 model calls, and dispatches in at most max_rounds
\* rounds.
WithinBudget ==
    Started
    => /\ Len(client_calls) <= gen.max_rounds + 1
       /\ \A i \in 1..Len(dispatched) : dispatched[i].round \in 1..gen.max_rounds

\* The five ways to DONE, told by what the last model call and the last
\* dispatch did and by what generate_response returned or raised.
ModelErrorExit ==
    /\ replies[Len(replies)].raised
    /\ gen.result = Raised(replies[Len(replies)].error)

ReturnsFirstText(r) ==
    /\ Len(r.content) > 0
    /\ IsText(r.content[1])
    /\ gen.result = Returned(r.content[1].text)

PlainTextExit ==
    LET n == Len(replies) IN
    /\ ~replies[n].raised
    /\ n <= gen.max_rounds
    /\ replies[n].response.stop_reason # "tool_use"
    /\ ReturnsFirstText(replies[n].response)

NoDispatcherExit ==
    LET n == Len(replies) IN
    /\ ~replies[n].raised
    /\ n <= gen.max_rounds
    /\ replies[n].response.stop_reason = "tool_use"
    /\ ~gen.tool_manager
    /\ \/ ReturnsFirstText(replies[n].response)
       \/ /\ Len(replies[n].response.content) = 0
          /\ gen.result = Returned(<<"No response available">>)

ApologyExit ==
    /\ Len(dispatched) > 0
    /\ dispatched[Len(dispatched)].raised
    /\ dispatched[Len(dispatched)].round = Len(replies)
    /\ gen.result.kind = "return"
    /\ StartsWith(gen.result.text, Apologizes)

FinalAnswerExit ==
    LET n == Len(replies) IN
    /\ ~replies[n].raised
    /\ n > gen.max_rounds
    /\ ReturnsFirstText(replies[n].response)

ListedExit ==
    Done => /\ Len(replies) > 0
            /\ \/ PlainTextExit
               \/ NoDispatcherExit
               \/ ApologyExit
               \/ FinalAnswerExit
               \/ ModelErrorExit

\* C30: every generate_response call whose model calls and tool dispatches
\* each return or raise eventually reaches DONE, after at most max_rounds + 1
\* model calls and at most max_rounds rounds of tool dispatch, and it reaches
\* DONE only with a plain-text answer, the no-dispatcher fallback, the
\* tool-failure apology, the forced final answer or a propagated model-call
\* error.
C30_TerminatesWithinBudget ==
    /\ Terminates
    /\ [](WithinBudget /\ ListedExit)

----------------------------------------------------------------------------
(* Properties of concurrent calls *)

\* The numbers of the model calls thread q made before call n.
EarlierCallsOf(q, n) == {m \in 1..(n - 1) : client_calls[m].thread = q}

\* The turn is an assistant turn holding the content of a response to an
\* earlier call of thread q.
OwnAssistantTurn(q, n, turn) ==
    /\ turn.role = "assistant"
    /\ \E m \in EarlierCallsOf(q, n) :
        ~replies[m].raised /\ turn.content = replies[m].response.content

\* The turn is a user turn of tool results, each the result of a dispatch of
\* thread q for an invocation of a response to an earlier call of thread q.
OwnResultTurn(q, n, turn) ==
    /\ turn.role = "user"
    /\ Len(turn.content) > 0
    /\ \A j \in 1..Len(turn.content) :
        /\ turn.content[j].type = "tool_result"
        /\ \E m \in EarlierCallsOf(q, n) :
            \E i \in 1..Len(replies[m].response.content) :
                LET b == replies[m].response.content[i] IN
                /\ IsToolUse(b)
                /\ turn.content[j].tool_use_id = b.id
                /\ \E d \in 1..Len(dispatched) :
                    /\ dispatched[d].thread = q
                    /\ dispatched[d].name = b.name
                    /\ ~dispatched[d].raised
                    /\ dispatched[d].text = turn.content[j].content

\* C31: two generate_response calls running at the same time on one
\* AIGenerator share no conversation state: under every interleaving each
\* model call of a query holds only the turns of that query, its own query
\* text first, then its own tool-invocation turns and its own tool results.
C31_OwnTurnsOnly ==
    \A n \in 1..Len(client_calls) :
        LET q == client_calls[n].thread
            ms == client_calls[n].messages
        IN /\ Len(ms) > 0
           /\ ms[1] = Turn("user", StrContent(ConcQuery(q)))
           /\ \A k \in 2..Len(ms) :
                OwnAssistantTurn(q, n, ms[k]) \/ OwnResultTurn(q, n, ms[k])

\* Both calls went through a round of tools, their model calls alternating.
C31_Witness ==
    /\ Len(client_calls) = 4
    /\ client_calls[1].thread = 1
    /\ client_calls[2].thread = 2
    /\ client_calls[3].thread = 1
    /\ client_calls[4].thread = 2
    /\ Len(client_calls[3].messages) = 3
    /\ Len(client_calls[4].messages) = 3
    /\ \E d \in 1..Len(dispatched) : dispatched[d].thread = 1
    /\ \E d \in 1..Len(dispatched) : dispatched[d].thread = 2

\* C32: when two top-level queries run at the same time against the same
\* ToolManager, no citation slot is shared between them: under every
\* interleaving of their tool executions, resets and get_last_sources reads,
\* the citations a query reads after its answer are exactly those its own
\* tool executions recorded.
C32_OwnCitations ==
    (ret.op = "get_last_sources")
    => ret.sources = GetLastSources(registry, gen[ret.query].slots)

----------------------------------------------------------------------------
(* Properties of the query endpoint *)

\* The session id the response to the request is to carry: the id of the
\* request when there is one, the id create_session returns otherwise.
SessionOf(request) ==
    IF Truthy(request.session_id) THEN Value(request.session_id) ELSE CreatedSession

\* C33: the query endpoint answers every request with the session id of
\* that request: the id supplied in the request when there is one, otherwise
\* a newly created session id; across any sequence of requests with distinct
\* session ids each response carries its own request's id.
C33_EveryResponseCarriesId ==
    \A i \in 1..Len(replies) :
        replies[i].session_id = Some(SessionOf(client_calls[i]))

\* C33, amended: the query endpoint answers every request whose processing
\* does not raise with status 200 and the session id of that request: the
\* id supplied in the request when there is one, otherwise the id
\* create_session returns, and the RAG system is queried under that id; a
\* request whose processing raises is answered with status 500 and no
\* session id.  Across any sequence of requests each response carries its
\* own request's id.
C33_SuccessfulResponseCarriesId ==
    /\ Len(replies) = Len(client_calls)
    /\ \A i \in 1..Len(replies) :
        IF replies[i].status = 200
        THEN replies[i].session_id = Some(SessionOf(client_calls[i]))
        ELSE replies[i].status = 500 /\ IsNone(replies[i].session_id)
    /\ \A d \in 1..Len(dispatched) :
        (dispatched[d].call = "query")
        => \E i \in 1..Len(client_calls) :
            /\ dispatched[d].query = client_calls[i].query
            /\ dispatched[d].session_id = SessionOf(client_calls[i])
    /\ Cardinality({d \in 1..Len(dispatched) : dispatched[d].call = "create_session"})
        = Cardinality({i \in 1..Len(client_calls) : ~Truthy(client_calls[i].session_id)})

C33_Witness ==
    /\ Len(replies) = 3
    /\ client_calls[1].session_id = Some("session_1")
    /\ client_calls[2].session_id = None
    /\ client_calls[3].session_id = Some("session_2")
    /\ replies[1].session_id = Some("session_1")
    /\ replies[2].session_id = Some(CreatedSession)
    /\ replies[3].session_id = Some("session_2")

----------------------------------------------------------------------------
(* Properties of the dispatches of one call *)

\* SYSTEM_PROMPT: "Maximum 2 tool calls per query".
MaxToolCallsPerQuery == 2

\* C34: with the default round budget at most 2 tool calls are dispatched
\* per generate_response call, whatever the model requests, several
\* invocations in one response included.
C34_AtMostTwoDispatches ==
    (gen.pc # "idle" /\ gen.max_rounds = DefaultMaxRounds)
    => Len(dispatched) <= MaxToolCallsPerQuery

----------------------------------------------------------------------------
(* Properties of the conversation of a model call *)

\* Turn k of a conversation that alternates: user, assistant, user, ...
RoleAt(k) == IF k % 2 = 1 THEN "user" ELSE "assistant"

\* C35: every model call of generate_response receives a conversation that
\* starts with the user query, strictly alternates user and assistant turns
\* and ends with a user turn, for every behaviour of the model, a tool-use
\* response without a tool invocation included.
C35_AlternatingTurns ==
    \A n \in 1..Len(client_calls) :
        LET ms == client_calls[n].messages IN
        /\ Len(ms) > 0
        /\ ms[1] = Turn("user", StrContent(Query))
        /\ \A k \in 1..Len(ms) : ms[k].role = RoleAt(k)
        /\ ms[Len(ms)].role = "user"

\* C36: a response of the model whose stop reason is not tool_use is
\* terminal in the rounds 1..max_rounds: its text is returned and no tool is
\* dispatched for it, also when its content holds tool_use blocks.
C36_NonToolStopTerminal ==
    \A n \in 1..Len(replies) :
        (/\ n <= gen.max_rounds
         /\ ~replies[n].raised
         /\ replies[n].response.stop_reason # "tool_use"
         /\ HasText(replies[n].response.content))
        => /\ gen.pc = "done"
           /\ Len(client_calls) = n
           /\ DispatchesOf(n) = <<>>
           /\ gen.result = Returned(FirstTextOf(replies[n].response.content))

----------------------------------------------------------------------------
(* Properties of the citation slots during a call *)

\* The dispatch reached a tool and the tool recorded citations: a search
\* that found passages, an outline of a course that was found.
RecordsCitations(d) ==
    /\ ~d.raised
    /\ \/ /\ d.tool \in SearchTools
          /\ ~d.answer.out.raised
          /\ ~Truthy(d.answer.out.error)
          /\ Len(d.answer.out.passages) > 0
       \/ /\ d.tool \in OutlineTools
          /\ Truthy(d.answer.outline.resolved)
          /\ Len(d.answer.outline.courses) > 0

\* The citations such a dispatch recorded.
CitationsOf(d) ==
    IF d.tool \in SearchTools
    THEN [i \in 1..Len(d.answer.out.passages) |->
            LET meta == d.answer.out.passages[i].meta IN
            [text |-> <<Value(meta.course_title), " - Lesson ",
                        ToString(Value(meta.lesson_number))>>,
             link |-> GetLessonLink(Value(meta.course_title), Value(meta.lesson_number))]]
    ELSE <<[text |-> <<d.answer.outline.courses[1].title>>,
            link |-> d.answer.outline.courses[1].course_link]>>

\* What the dispatches of the call left in the slot of tool t.
RecordedIn(t) ==
    LET recs == {d \in 1..Len(dispatched) :
                    dispatched[d].tool = t /\ RecordsCitations(dispatched[d])}
    IN IF recs = {} THEN <<>>
       ELSE CitationsOf(dispatched[CHOOSE d \in recs : \A e \in recs : e <= d])

\* The call ended with the apology for a failed dispatch.
EndedWithApology ==
    /\ gen.pc = "done"
    /\ gen.result.kind = "return"
    /\ StartsWith(gen.result.text, Apologizes)

\* C37: generate_response touches the tool layer only through
\* execute_tool: it never resets or reads the citation slots and never
\* changes the registry, so at every point of the call, the end with the
\* tool-failure apology included, every slot holds what the last dispatch
\* that recorded citations in it left there, in an earlier round or as an
\* earlier sibling of the failing invocation.
C37_SlotsSurviveFailure ==
    /\ ret.op \in {"init", "execute_tool"}
    /\ Names(registry) = {SearchName, OutlineName}
    /\ \A t \in Tools : last_sources[t] = RecordedIn(t)

C37_Witness ==
    /\ EndedWithApology
    /\ Len(dispatched) = 2
    /\ dispatched[1].round = dispatched[2].round
    /\ RecordsCitations(dispatched[1])
    /\ dispatched[2].raised
    /\ last_sources[dispatched[1].tool] = CitationsOf(dispatched[1])

----------------------------------------------------------------------------
(* Properties of a registration under a used name *)

ReplacedMarker == <<[text |-> <<"citation of the replaced tool">>, link |-> None]>>

\* C38: after any sequence of register_tool calls the registry holds at most
\* one tool per name: registering a tool under a name already in use
\* replaces the earlier tool, which no name reaches any more and whose slot
\* get_last_sources does not read and reset_sources does not empty, and the
\* name keeps its position in the order of the schemas.
C38_ReplacementInPlace ==
    [][Registered(ret')
       => LET name == Value(DefinitionName(ret'.tool)) IN
          /\ \A i, j \in 1..Len(registry') :
                (registry'[i].name = registry'[j].name) => (i = j)
          /\ name \in Names(registry')
          /\ Lookup(registry', name) = ret'.tool
          /\ (name \in Names(registry))
             => LET old == Lookup(registry, name) IN
                /\ Len(registry') = Len(registry)
                /\ registry'[IndexOf(registry, name)].name = name
                /\ GetToolDefinitions(registry') = GetToolDefinitions(registry)
                /\ (old # ret'.tool)
                   => /\ \A n \in Names(registry') : Lookup(registry', n) # old
                      /\ GetLastSources(registry',
                                        [last_sources' EXCEPT ![old] = ReplacedMarker])
                         = GetLastSources(registry', [last_sources' EXCEPT ![old] = <<>>])
                      /\ ResetSources(registry',
                                      [last_sources' EXCEPT ![old] = ReplacedMarker])[old]
                         = ReplacedMarker]_vars

C38_Witness ==
    /\ Registered(ret)
    /\ ret.tool = "search_b"
    /\ Len(registry) = 2
    /\ registry[1] = [name |-> SearchName, tool |-> "search_b"]
    /\ last_sources["search_a"] # <<>>
    /\ GetLastSources(registry, last_sources) = <<>>

====
